---- MODULE Spec2Model ----
(***************************************************************************)
(* Phoenix Warm-Up Engine: the stores (inboxes.csv, recipients.csv,        *)
(* logs.csv), the ramp policy, the outbound WarmupCycle and the            *)
(* scheduler wrapper, as state machines.                                   *)
(*                                                                         *)
(* Time is in seconds since midnight of day 0.  A timestamp that the code  *)
(* keeps as the empty string (never sent, never used) is Never.            *)
(***************************************************************************)
EXTENDS Integers, Sequences, FiniteSets, TLC

VARIABLES
    inboxRows,      \* inboxes.csv: the rows, in file order
    recipientRows,  \* recipients.csv: the rows, in file order
    logRows,        \* logs.csv: the rows, in file order (append-only)
    uiQueue,        \* App.ui_queue: the events put and not yet taken
    now,            \* the wall clock, in seconds
    wPc,            \* WarmupEngine.run_cycle: where the running invocation is
    wActive,        \* run_cycle: the list get_active() returned
    wIdx,           \* run_cycle: index of the inbox being processed
    wRecipient,     \* _process_inbox: the recipient picked for the send in flight
    wResult,        \* _process_inbox: the SendResult of the send in flight
    wSends,         \* history: the transport sends attempted by this invocation
    wProcessed,     \* history: the inboxes _process_inbox was called for
    wStore0,        \* history: inboxes.csv when this invocation loaded it
    wRcpt0,         \* history: recipients.csv when this invocation loaded the inboxes
    wLog0,          \* history: length of logs.csv when this invocation started
    wQ0,            \* history: length of the event queue when this invocation started
    wForeign,       \* history: another writer touched a store since this invocation's load
    wRaised,        \* history: the inboxes whose processing raised into run_cycle
    expectedSent,   \* history: per inbox, the sends counted since the last reset
    nCycles,        \* WarmupCycle invocations started so far
    nEnv,           \* steps taken so far by the clock, the dashboard and the reset
    running,        \* WarmupScheduler._running
    schedState,     \* BackgroundScheduler.state: stopped, running or paused
    poolShut,       \* the ThreadPoolExecutor has been shut down
    jobNext,        \* per job id, next_run_time of the registered job, or Never
    instances,      \* per job id, the executions of it in progress
    lastFire,       \* history: per job id, what became of its last due firing
    lastCall,       \* history: the last lifecycle method called, and _running before it
    wasShutDown,    \* history: shutdown() has been called
    nCalls,         \* lifecycle calls so far
    nSched,         \* scheduler clock advances so far
    mailbox,        \* per inbox, the messages of its IMAP INBOX folder
    rPc,            \* ReplyEngine.run_reply_cycle: where the running invocation is
    rActive,        \* run_reply_cycle: the list get_active() returned
    rIdx,           \* run_reply_cycle: index of the inbox being processed
    rMsgs,          \* _process_inbox_replies: the fetched messages not yet handled
    rProcessed,     \* history: the inboxes _process_inbox_replies was called for
    rReplies,       \* history: the reply sends attempted by this invocation
    rRaised,        \* history: the inboxes whose processing raised into run_reply_cycle
    nReplyCycles,   \* ReplyCycle invocations started so far
    nOps,           \* calls made on the InboxStore from outside the cycles
    lastOp,         \* history: the last of these calls, and whether it raised
    call,           \* the last call of a function of ramp_logic: arguments and result
    logDown,        \* LogStore.append raises: logs.csv cannot be written
    smtpResults,    \* the results SMTPEngine.send can return: what the servers do
    rng             \* random.uniform and random.gauss: what the draws of this run give

engineVars == <<inboxRows, recipientRows, logRows, uiQueue, now, wPc, wActive,
                wIdx, wRecipient, wResult, wSends, wProcessed, wStore0, wRcpt0,
                wLog0, wQ0, wForeign, wRaised, expectedSent, nCycles, nEnv>>

schedVars == <<running, schedState, poolShut, jobNext, instances, lastFire,
               lastCall, wasShutDown, nCalls, nSched>>

\* what the scheduler's own steps leave alone
engineOnly == <<inboxRows, recipientRows, logRows, wPc, wActive, wIdx, wRecipient,
                wResult, wSends, wProcessed, wStore0, wRcpt0, wLog0, wQ0, wForeign,
                wRaised, expectedSent, nCycles, nEnv>>

replyVars == <<mailbox, rPc, rActive, rIdx, rMsgs, rProcessed, rReplies, rRaised,
               nReplyCycles>>

\* what the ReplyCycle's steps leave alone
engineQuiet == <<inboxRows, recipientRows, now, wPc, wActive, wIdx, wRecipient,
                 wResult, wSends, wProcessed, wStore0, wRcpt0, wLog0, wQ0, wForeign,
                 wRaised, expectedSent, nCycles, nEnv>>

\* the calls made on the InboxStore from outside the cycles
storeVars == <<nOps, lastOp>>

vars == <<engineVars, schedVars, replyVars, storeVars, call, logDown, smtpResults, rng>>

----------------------------------------------------------------------------
(* Bounds of the model *)

MaxCycles == 1
MaxEnv == 1
MaxCalls == 3
MaxSched == 2
MaxReplyCycles == 1

MaxOps == 3

\* firings of the warm-up job that the model follows through a day
MaxDayCycles == 13

\* half-hourly firings of the warm-up job that the model follows over days
MaxClimbCycles == 150

----------------------------------------------------------------------------
(* core/ramp_logic.py *)

Never == -1

STAGE_LIMITS == (1 :> 5) @@ (2 :> 15) @@ (3 :> 25) @@ (4 :> 40)

MAX_STAGE == 4

STAGE_SEND_INTERVALS ==
    (1 :> <<1800, 10800>>) @@ (2 :> <<900, 5400>>) @@
    (3 :> <<600, 3600>>) @@ (4 :> <<300, 2400>>)

Min(a, b) == IF a <= b THEN a ELSE b

Max(a, b) == IF a >= b THEN a ELSE b

\* mutant: a stage out of range gets the limit of the last stage
get_daily_limit_mut(stage) ==
    IF stage \in DOMAIN STAGE_LIMITS THEN STAGE_LIMITS[stage] ELSE STAGE_LIMITS[MAX_STAGE]

get_daily_limit(stage) ==
    IF stage \in DOMAIN STAGE_LIMITS THEN STAGE_LIMITS[stage] ELSE STAGE_LIMITS[1]

\* mutant: the limit itself still passes the gate
should_send_mut(inbox) == inbox.daily_sent <= inbox.daily_limit

should_send(inbox) == inbox.daily_sent < inbox.daily_limit

\* mutant: no cap at the last stage
next_stage_mut(current_stage) == current_stage + 1

next_stage(current_stage) == Min(current_stage + 1, MAX_STAGE)

\* mutant: the delay is int(base + jitter), without the floor of low/2
get_send_delay_seconds_mut(stage) ==
    LET iv == IF stage \in DOMAIN STAGE_SEND_INTERVALS
              THEN STAGE_SEND_INTERVALS[stage] ELSE STAGE_SEND_INTERVALS[1]
    IN  {iv[1] \div 4, iv[1], iv[2]}

\* The values get_send_delay_seconds(stage) can return that the model draws:
\* max(int(low * 0.5), int(base + jitter)) with base uniform in [low, high]
\* and an unbounded Gaussian jitter is any integer from low/2 upwards.
get_send_delay_seconds(stage) ==
    LET iv == IF stage \in DOMAIN STAGE_SEND_INTERVALS
              THEN STAGE_SEND_INTERVALS[stage] ELSE STAGE_SEND_INTERVALS[1]
    IN  {Max(iv[1] \div 2, d) : d \in {iv[1] \div 2, iv[1], iv[2]}}

\* the delays this run draws: any of them, or the shortest or the longest
\* every time
drawn_delays(stage) ==
    LET all == get_send_delay_seconds(stage)
    IN  CASE rng = "short" -> {d \in all : \A e \in all : d <= e}
          [] rng = "long" -> {d \in all : \A e \in all : d >= e}
          [] OTHER -> all

\* parse("HH:MM") of within_working_hours; a time of day is the pair <<h, m>>
parse(s) == s[1] * 60 + s[2]

current_minutes(t) == (t \div 60) % 1440

within_working_hours(start_str, end_str, t) ==
    LET start == parse(start_str)
        end   == parse(end_str)
        cur   == current_minutes(t)
    IN  IF start <= end
        THEN start <= cur /\ cur <= end
        ELSE cur >= start \/ cur <= end

is_time_to_send(last_sent_at, delay, t) ==
    IF last_sent_at = Never THEN TRUE ELSE (t - last_sent_at) >= delay

\* no function of ramp_logic has been called
NoCall == [fn |-> "none", args |-> <<>>, out |-> <<>>, done |-> FALSE]

\* a call about to be made, and the call once it has returned
Pending(fn, args) == [fn |-> fn, args |-> args, out |-> <<>>, done |-> FALSE]

Returns(out) == call' = [call EXCEPT !.out = out, !.done = TRUE]

IsPending(fn) == call.fn = fn /\ ~call.done

Returned(fn) == call.fn = fn /\ call.done

\* what a call of a function of ramp_logic leaves alone: everything
CallFrame == UNCHANGED <<engineVars, schedVars, replyVars, storeVars, logDown, smtpResults, rng>>

\* times of day, as "HH:MM" strings parse them
WorkTimes == {<<0, 0>>, <<6, 0>>, <<8, 0>>, <<20, 0>>, <<22, 0>>}

\* datetime.now() at the call: seconds since midnight, around the window's ends
ClockTimes ==
    {0, 5 * 3600 + 3599, 6 * 3600, 6 * 3600 + 60, 7 * 3600 + 3599, 8 * 3600,
     9 * 3600, 12 * 3600, 19 * 3600 + 3599, 20 * 3600, 20 * 3600 + 59,
     20 * 3600 + 60, 21 * 3600, 22 * 3600, 23 * 3600 + 1800}

call_within_working_hours ==
    /\ IsPending("within_working_hours")
    /\ Returns(within_working_hours(call.args[1], call.args[2], call.args[3]))
    /\ CallFrame

----------------------------------------------------------------------------
(* storage/inbox_store.py: every operation holds the module lock for its    *)
(* whole read-modify-write of the file, so each is one atomic step.         *)

\* InboxRecord; conn stands for smtp_host, smtp_port, imap_host, imap_port
\* and password, which are only ever copied together
InboxRecord(email, conn, stage, daily_sent, daily_limit, status, last_sent_at, paused_reason, working_hours_start, working_hours_end, display_name) ==
    [email |-> email, conn |-> conn, stage |-> stage, daily_sent |-> daily_sent,
     daily_limit |-> daily_limit, status |-> status, last_sent_at |-> last_sent_at,
     paused_reason |-> paused_reason, working_hours_start |-> working_hours_start,
     working_hours_end |-> working_hours_end, display_name |-> display_name]

\* index of the first row with this email, 0 when there is none
RowIndex(rows, email) ==
    IF \E i \in DOMAIN rows : rows[i].email = email
    THEN CHOOSE i \in DOMAIN rows :
            /\ rows[i].email = email
            /\ \A j \in DOMAIN rows : rows[j].email = email => i <= j
    ELSE 0

IsActiveInbox(r) == r.status = "active"

\* mutant: no filter on status
get_active_mut(rows) == rows

get_active(rows) == SelectSeq(rows, IsActiveInbox)

find(rows, email) == rows[RowIndex(rows, email)]

\* InboxStore.update raises KeyError, and writes nothing, when the email is absent
update_raises(rows, record) == RowIndex(rows, record.email) = 0

update(rows, record) ==
    IF update_raises(rows, record) THEN rows
    ELSE [rows EXCEPT ![RowIndex(rows, record.email)] = record]

\* mutant: add does not look for the email
add_raises_mut(rows, record) == FALSE

\* InboxStore.add raises ValueError, and writes nothing, when the email is there
add_raises(rows, record) == \E i \in DOMAIN rows : rows[i].email = record.email

add(rows, record) ==
    IF add_raises(rows, record) THEN rows ELSE Append(rows, record)

delete(rows, email) == SelectSeq(rows, LAMBDA r : r.email # email)

pause(rows, email, reason) ==
    IF RowIndex(rows, email) = 0 THEN rows
    ELSE [rows EXCEPT ![RowIndex(rows, email)] =
            [@ EXCEPT !.status = "paused", !.paused_reason = reason]]

resume(rows, email) ==
    IF RowIndex(rows, email) = 0 THEN rows
    ELSE [rows EXCEPT ![RowIndex(rows, email)] =
            [@ EXCEPT !.status = "active", !.paused_reason = ""]]

\* mutant: the inbox is paused, not put in error
mark_error_mut(rows, email, reason) ==
    IF RowIndex(rows, email) = 0 THEN rows
    ELSE [rows EXCEPT ![RowIndex(rows, email)] =
            [@ EXCEPT !.status = "paused", !.paused_reason = reason]]

mark_error(rows, email, reason) ==
    IF RowIndex(rows, email) = 0 THEN rows
    ELSE [rows EXCEPT ![RowIndex(rows, email)] =
            [@ EXCEPT !.status = "error", !.paused_reason = reason]]

\* mutant: only the active inboxes are reset
reset_daily_counts_mut(rows) ==
    [i \in DOMAIN rows |->
        IF rows[i].status # "active" THEN rows[i]
        ELSE [rows[i] EXCEPT !.daily_sent = 0,
                             !.daily_limit = IF rows[i].stage \in DOMAIN STAGE_LIMITS
                                             THEN STAGE_LIMITS[rows[i].stage] ELSE 5]]

reset_daily_counts(rows) ==
    [i \in DOMAIN rows |->
        [rows[i] EXCEPT !.daily_sent = 0,
                        !.daily_limit = IF rows[i].stage \in DOMAIN STAGE_LIMITS
                                        THEN STAGE_LIMITS[rows[i].stage] ELSE 5]]

update_stage(rows, email, new_stage) ==
    IF RowIndex(rows, email) = 0 THEN rows
    ELSE [rows EXCEPT ![RowIndex(rows, email)] =
            [@ EXCEPT !.stage = new_stage,
                      !.daily_limit = IF new_stage \in DOMAIN STAGE_LIMITS
                                      THEN STAGE_LIMITS[new_stage] ELSE 5]]

----------------------------------------------------------------------------
(* storage/recipient_store.py *)

RecipientRecord(email, active, count_used, last_used) ==
    [email |-> email, active |-> active, count_used |-> count_used,
     last_used |-> last_used]

is_active(r) == r.active

get_active_recipients(rows) == SelectSeq(rows, is_active)

\* list.sort(key=(count_used, last_used or "")) is stable: the first of the
\* smallest keys, in file order, ends up at index 0.  "" sorts before any time.
SortKeyLess(a, b) ==
    \/ a.count_used < b.count_used
    \/ a.count_used = b.count_used /\ a.last_used < b.last_used

\* mutant: the sender's own address is not excluded
least_used_candidates_mut(rows, exclude_email) == get_active_recipients(rows)

\* the candidate list of get_least_used, None (the empty list) included
least_used_candidates(rows, exclude_email) ==
    LET others == SelectSeq(get_active_recipients(rows),
                            LAMBDA r : r.email # exclude_email)
    IN  IF others # <<>> THEN others ELSE get_active_recipients(rows)

has_least_used(rows, exclude_email) ==
    least_used_candidates(rows, exclude_email) # <<>>

\* mutant: the first candidate, without the sort
get_least_used_mut(rows, exclude_email) == least_used_candidates(rows, exclude_email)[1]

get_least_used(rows, exclude_email) ==
    LET active == least_used_candidates(rows, exclude_email)
        i == CHOOSE i \in DOMAIN active :
                \A j \in DOMAIN active :
                    /\ ~SortKeyLess(active[j], active[i])
                    /\ (j < i => SortKeyLess(active[j], active[i])
                                 \/ SortKeyLess(active[i], active[j]))
    IN  active[i]

\* mutant: the use is counted twice
record_use_twice_mut(rows, email, t) ==
    IF RowIndex(rows, email) = 0 THEN rows
    ELSE [rows EXCEPT ![RowIndex(rows, email)] =
            [@ EXCEPT !.count_used = @ + 2, !.last_used = t]]

\* mutant: the timestamp is updated, the count is not
record_use_mut(rows, email, t) ==
    IF RowIndex(rows, email) = 0 THEN rows
    ELSE [rows EXCEPT ![RowIndex(rows, email)] = [@ EXCEPT !.last_used = t]]

record_use(rows, email, t) ==
    IF RowIndex(rows, email) = 0 THEN rows
    ELSE [rows EXCEPT ![RowIndex(rows, email)] =
            [@ EXCEPT !.count_used = @ + 1, !.last_used = t]]

\* mutant: the recipient is left as it is
deactivate_mut(rows, email) == rows

deactivate(rows, email) ==
    IF RowIndex(rows, email) = 0 THEN rows
    ELSE [rows EXCEPT ![RowIndex(rows, email)] = [@ EXCEPT !.active = FALSE]]

----------------------------------------------------------------------------
(* storage/log_store.py, core/logger.py *)

LogRecord(timestamp, inbox_email, event_type, recipient) ==
    [timestamp |-> timestamp, inbox_email |-> inbox_email,
     event_type |-> event_type, recipient |-> recipient]

append(rows, record) == Append(rows, record)

\* WarmupLogger._write: a row stamped with the current time; an exception
\* of LogStore.append is caught and the row is lost
log_write(rows, t, inbox_email, event_type, recipient) ==
    IF logDown THEN rows
    ELSE append(rows, LogRecord(t, inbox_email, event_type, recipient))

\* rows of one inbox and kind whose timestamp string is >= the cutoff string.
\* The cutoff is isoformat() of now - hours with microseconds, a row's
\* timestamp has none: a row of the cutoff's own second compares below it
\* unless the cutoff's microsecond is 0 (exact).
count_last_hours(rows, inbox_email, event_type, t, exact) ==
    LET cutoff == t - 24 * 3600
    IN  Cardinality({i \in DOMAIN rows :
            /\ rows[i].inbox_email = inbox_email
            /\ rows[i].event_type = event_type
            /\ (rows[i].timestamp > cutoff
                \/ (exact /\ rows[i].timestamp = cutoff))})

count_bounces_last_hours(rows, inbox_email, t, exact) ==
    count_last_hours(rows, inbox_email, "BOUNCE", t, exact)

count_sends_last_hours(rows, inbox_email, t, exact) ==
    count_last_hours(rows, inbox_email, "SEND", t, exact)

\* mutant: a rate equal to the threshold pauses too
check_bounce_threshold_mut(sent, bounced) ==
    IF sent = 0 THEN FALSE ELSE bounced * 100 >= 5 * sent

\* the default of the BOUNCE_THRESHOLD environment variable, in hundredths
BOUNCE_THRESHOLD == 5

\* mutant: a rate equal to the threshold exceeds it
bounce_rate_above_mut(sent, bounced, threshold) ==
    IF sent = 0 THEN FALSE ELSE bounced * 100 >= threshold * sent

\* check_bounce_threshold's test, (bounced / sent) > threshold, for a
\* threshold of threshold/100.  The quotient of the floats and the float of
\* the threshold are the same double when the rate equals the threshold, and
\* rates that differ do so by far more than a rounding error, so the
\* comparison is that of the exact fractions.
bounce_rate_above(sent, bounced, threshold) ==
    IF sent = 0 THEN FALSE ELSE bounced * 100 > threshold * sent

\* check_bounce_threshold with BOUNCE_THRESHOLD at its default 0.05
check_bounce_threshold(sent, bounced) ==
    bounce_rate_above(sent, bounced, BOUNCE_THRESHOLD)

\* the BOUNCE_THRESHOLD values of the model, in hundredths, and the counts
Thresholds == {0, 5, 10, 100}

SentCounts == {0, 1, 19, 20, 21, 40, 100}

BouncedCounts == {0, 1, 2, 5, 6}

\* stage numbers, in range and out of it
StageValues == -1..6

call_get_daily_limit ==
    /\ IsPending("get_daily_limit")
    /\ Returns(get_daily_limit(call.args[1]))
    /\ CallFrame

call_check_bounce_threshold ==
    /\ IsPending("check_bounce_threshold")
    /\ Returns(bounce_rate_above(call.args[1], call.args[2], call.args[3]))
    /\ CallFrame

----------------------------------------------------------------------------
(* app.py, WarmupEngine._post_ui: queue.Queue(maxsize=1000).put_nowait,     *)
(* queue.Full swallowed                                                      *)

QUEUE_MAXSIZE == 1000

\* mutant: a full queue makes room by dropping its oldest event
post_ui_mut(queue, event_type, inbox_email) ==
    IF Len(queue) >= QUEUE_MAXSIZE
    THEN Append(Tail(queue), [type |-> event_type, inbox |-> inbox_email])
    ELSE Append(queue, [type |-> event_type, inbox |-> inbox_email])

post_ui(queue, event_type, inbox_email) ==
    IF Len(queue) >= QUEUE_MAXSIZE THEN queue
    ELSE Append(queue, [type |-> event_type, inbox |-> inbox_email])

----------------------------------------------------------------------------
(* core/smtp_engine.py: what SMTPEngine.send can return.  "other" is a       *)
(* refused recipient whose code is neither a hard nor a soft bounce code.    *)

SendResults == {"success", "auth", "hard", "soft", "other"}

----------------------------------------------------------------------------
(* core/warmup_engine.py *)

Inbox == wActive[wIdx]

\* mutant: promotion only beyond the limit
promotes_mut(inbox) ==
    inbox.daily_sent + 1 > inbox.daily_limit /\ inbox.stage < 4

\* _handle_success: whether the send promotes the inbox
promotes(inbox) ==
    inbox.daily_sent + 1 >= inbox.daily_limit /\ inbox.stage < 4

new_stage_of(inbox) ==
    IF promotes(inbox) THEN next_stage(inbox.stage) ELSE inbox.stage

\* mutant: the promoted record keeps the limit of the old stage
updated_record_mut(inbox, t) ==
    InboxRecord(inbox.email, inbox.conn, new_stage_of(inbox),
                inbox.daily_sent + 1, inbox.daily_limit,
                inbox.status, t, "", inbox.working_hours_start,
                inbox.working_hours_end, "")

\* _handle_success: the record handed to InboxStore.update (display_name is
\* not passed and takes the dataclass default)
updated_record(inbox, t) ==
    InboxRecord(inbox.email, inbox.conn, new_stage_of(inbox),
                inbox.daily_sent + 1, get_daily_limit(new_stage_of(inbox)),
                inbox.status, t, "", inbox.working_hours_start,
                inbox.working_hours_end, "")

\* mutant: without the working-hours gate
gates_pass_mut(inbox, delay, t) ==
    /\ should_send(inbox)
    /\ is_time_to_send(inbox.last_sent_at, delay, t)

\* the three gates of _process_inbox, in order
gates_pass(inbox, delay, t) ==
    /\ within_working_hours(inbox.working_hours_start, inbox.working_hours_end, t)
    /\ should_send(inbox)
    /\ is_time_to_send(inbox.last_sent_at, delay, t)

\* mutant: the try statement around the whole loop
next_after_raise_mut(idx, n) == n + 1

\* run_cycle, run_reply_cycle: the try statement is inside the for loop, so
\* after an exception the loop goes on with the next inbox of the list
next_after_raise(idx, n) == idx + 1

\* run_cycle up to the loop: active = self.inbox_store.get_active(), which
\* returns the list or raises (the file cannot be read or parsed); on an
\* exception run_cycle logs and returns
run_cycle ==
    /\ wPc \in {"idle", "done", "aborted"}
    /\ nCycles < MaxCycles
    /\ nCycles' = nCycles + 1
    /\ \E loaded \in BOOLEAN :
        IF loaded
        THEN wActive' = get_active(inboxRows) /\ wPc' = "loop"
        ELSE wActive' = <<>> /\ wPc' = "aborted"
    /\ wIdx' = 1
    /\ wRaised' = {}
    /\ wSends' = <<>>
    /\ wProcessed' = <<>>
    /\ wStore0' = inboxRows
    /\ wRcpt0' = recipientRows
    /\ wLog0' = Len(logRows)
    /\ wQ0' = Len(uiQueue)
    /\ wForeign' = FALSE
    /\ UNCHANGED <<inboxRows, recipientRows, logRows, uiQueue, now, wRecipient,
                   wResult, expectedSent, nEnv>>
    /\ UNCHANGED <<schedVars, replyVars, storeVars, call, logDown, smtpResults, rng>>

\* _process_inbox up to the return of smtp.send: a gate fails, or no
\* recipient is available, or the send is made and its result is in hand
process_inbox ==
    /\ wPc = "loop"
    /\ wIdx <= Len(wActive)
    /\ wProcessed' = Append(wProcessed, Inbox.email)
    /\ \E delay \in drawn_delays(Inbox.stage) :
        IF ~gates_pass(Inbox, delay, now)
        THEN /\ wIdx' = wIdx + 1
             /\ UNCHANGED <<uiQueue, wPc, wRecipient, wResult, wSends, wRaised>>
        ELSE IF ~has_least_used(recipientRows, Inbox.email)
        THEN /\ uiQueue' = post_ui(uiQueue, "warning", Inbox.email)
             /\ wIdx' = wIdx + 1
             /\ UNCHANGED <<wPc, wRecipient, wResult, wSends, wRaised>>
        ELSE \E result \in smtpResults :
             /\ wRecipient' = get_least_used(recipientRows, Inbox.email).email
             /\ wResult' = result
             /\ wSends' = Append(wSends, [from |-> Inbox.email,
                                          to |-> wRecipient', result |-> result])
             /\ wPc' = "sent"
             /\ UNCHANGED <<uiQueue, wIdx, wRaised>>
    /\ UNCHANGED <<inboxRows, recipientRows, logRows, now, wActive, wStore0,
                   wRcpt0, wLog0, wQ0, wForeign, wRaised, expectedSent, nCycles, nEnv>>
    /\ UNCHANGED <<schedVars, replyVars, storeVars, call, logDown, smtpResults, rng>>

\* _handle_success
handle_success ==
    LET inbox == Inbox
        log1 == IF promotes(inbox)
                THEN log_write(logRows, now, inbox.email, "STAGE", "")
                ELSE logRows
        q1   == IF promotes(inbox)
                THEN post_ui(uiQueue, "stage_advance", inbox.email)
                ELSE uiQueue
    IN  \* the KeyError of InboxStore.update (the row is gone) is caught in
        \* _handle_success, which goes on to the SEND row and the send event
        /\ inboxRows' = update(inboxRows, updated_record(inbox, now))
        /\ logRows' = log_write(log1, now, inbox.email, "SEND", wRecipient)
        /\ uiQueue' = post_ui(q1, "send", inbox.email)
        /\ expectedSent' = IF update_raises(inboxRows, updated_record(inbox, now))
                           THEN expectedSent
                           ELSE [expectedSent EXCEPT ![inbox.email] = @ + 1]
        /\ wIdx' = wIdx + 1
        /\ UNCHANGED wRaised

\* mutant: a soft bounce deactivates the recipient as a hard bounce does
handle_transient_mut(rcpt) ==
    /\ logRows' = log_write(logRows, now, Inbox.email, "ERROR", "")
    /\ uiQueue' = post_ui(uiQueue, "error", Inbox.email)
    /\ recipientRows' = deactivate(rcpt, wRecipient)
    /\ UNCHANGED inboxRows

\* _handle_failure, soft bounce and generic SMTP error: an ERROR row and an
\* error event
handle_transient(rcpt) ==
    /\ logRows' = log_write(logRows, now, Inbox.email, "ERROR", "")
    /\ uiQueue' = post_ui(uiQueue, "error", Inbox.email)
    /\ recipientRows' = rcpt
    /\ UNCHANGED inboxRows

\* _handle_failure; rcpt is recipients.csv after record_use
handle_failure(rcpt) ==
    LET inbox == Inbox
    IN  /\ UNCHANGED <<expectedSent, wRaised>>
        /\ wIdx' = wIdx + 1
        /\ CASE wResult = "auth" ->
                /\ logRows' = log_write(logRows, now, inbox.email, "ERROR", "")
                /\ inboxRows' = mark_error(inboxRows, inbox.email, "Authentication failed")
                /\ uiQueue' = post_ui(uiQueue, "error", inbox.email)
                /\ recipientRows' = rcpt
             [] wResult = "hard" ->
                \E exact \in BOOLEAN :
                LET log1 == log_write(logRows, now, inbox.email, "BOUNCE", wRecipient)
                    bounces_24h == count_bounces_last_hours(log1, inbox.email, now, exact)
                    sends_24h == count_sends_last_hours(log1, inbox.email, now, exact)
                IN  /\ recipientRows' = deactivate(rcpt, wRecipient)
                    /\ IF check_bounce_threshold(sends_24h, bounces_24h)
                       THEN /\ inboxRows' = pause(inboxRows, inbox.email,
                                    "Auto-paused: bounce rate exceeded threshold")
                            /\ logRows' = log_write(log1, now, inbox.email, "PAUSE", "")
                            /\ uiQueue' = post_ui(uiQueue, "pause", inbox.email)
                       ELSE /\ inboxRows' = inboxRows
                            /\ logRows' = log1
                            /\ uiQueue' = post_ui(uiQueue, "bounce", inbox.email)
             [] OTHER -> handle_transient(rcpt)

\* _process_inbox raises before the send (reading recipients.csv or
\* generating the content fails): run_cycle catches the exception, puts an
\* error event and goes on
process_inbox_raises ==
    /\ wPc = "loop"
    /\ wIdx <= Len(wActive)
    /\ \E delay \in get_send_delay_seconds(Inbox.stage) : gates_pass(Inbox, delay, now)
    /\ wProcessed' = Append(wProcessed, Inbox.email)
    /\ wRaised' = wRaised \cup {Inbox.email}
    /\ uiQueue' = post_ui(uiQueue, "error", Inbox.email)
    /\ wIdx' = next_after_raise(wIdx, Len(wActive))
    /\ UNCHANGED <<inboxRows, recipientRows, logRows, now, wPc, wActive, wRecipient,
                   wResult, wSends, wStore0, wRcpt0, wLog0, wQ0, wForeign,
                   expectedSent, nCycles, nEnv>>
    /\ UNCHANGED <<schedVars, replyVars, storeVars, call, logDown, smtpResults, rng>>

\* _process_inbox from the return of smtp.send: record_use, then the handler
finish_send ==
    /\ wPc = "sent"
    /\ LET rcpt == record_use(recipientRows, wRecipient, now)
       IN  IF wResult = "success"
           THEN handle_success /\ recipientRows' = rcpt
           ELSE handle_failure(rcpt)
    /\ wPc' = "loop"
    /\ UNCHANGED <<now, wActive, wRecipient, wResult, wSends, wProcessed, wStore0,
                   wRcpt0, wLog0, wQ0, wForeign, nCycles, nEnv>>
    /\ UNCHANGED <<schedVars, replyVars, storeVars, call, logDown, smtpResults, rng>>

\* run_cycle: the loop is over
run_cycle_return ==
    /\ wPc = "loop"
    /\ wIdx > Len(wActive)
    /\ wPc' = "done"
    /\ UNCHANGED <<inboxRows, recipientRows, logRows, uiQueue, now, wActive, wIdx,
                   wRecipient, wResult, wSends, wProcessed, wStore0, wRcpt0, wLog0,
                   wQ0, wForeign, wRaised, expectedSent, nCycles, nEnv>>
    /\ UNCHANGED <<schedVars, replyVars, storeVars, call, logDown, smtpResults, rng>>

----------------------------------------------------------------------------
(* The other writers of inboxes.csv *)

InFlight == wPc \in {"loop", "sent", "done"}

StoredEmails == {inboxRows[i].email : i \in DOMAIN inboxRows}

\* the daily_reset job (scheduler.py) and Dashboard._on_reset_counters
daily_reset ==
    /\ nEnv < MaxEnv
    /\ nEnv' = nEnv + 1
    /\ inboxRows' = reset_daily_counts(inboxRows)
    /\ expectedSent' = [e \in DOMAIN expectedSent |-> 0]
    /\ wForeign' = (wForeign \/ InFlight)
    /\ UNCHANGED <<recipientRows, logRows, uiQueue, now, wPc, wActive, wIdx,
                   wRecipient, wResult, wSends, wProcessed, wStore0, wRcpt0, wLog0,
                   wQ0, wRaised, nCycles>>
    /\ UNCHANGED <<schedVars, replyVars, storeVars, call, logDown, smtpResults, rng>>

\* Dashboard._on_pause_inbox for the selected inbox: a paused inbox is
\* resumed, any other is paused
on_pause_inbox(email) ==
    /\ nEnv < MaxEnv
    /\ email \in StoredEmails
    /\ nEnv' = nEnv + 1
    /\ inboxRows' = IF find(inboxRows, email).status = "paused"
                    THEN resume(inboxRows, email)
                    ELSE pause(inboxRows, email, "Manually paused")
    /\ wForeign' = (wForeign \/ InFlight)
    /\ UNCHANGED <<recipientRows, logRows, uiQueue, now, wPc, wActive, wIdx,
                   wRecipient, wResult, wSends, wProcessed, wStore0, wRcpt0, wLog0,
                   wQ0, wRaised, expectedSent, nCycles>>
    /\ UNCHANGED <<schedVars, replyVars, storeVars, call, logDown, smtpResults, rng>>

\* the stages the model's user picks in the dialog, of the "1".."4" it offers
EditStages == {1, 3}

\* EditStageDialog._save
edit_stage_save(email, new_stage) ==
    /\ nEnv < MaxEnv
    /\ email \in StoredEmails
    /\ nEnv' = nEnv + 1
    /\ inboxRows' = update_stage(inboxRows, email, new_stage)
    /\ wForeign' = (wForeign \/ InFlight)
    /\ UNCHANGED <<recipientRows, logRows, uiQueue, now, wPc, wActive, wIdx,
                   wRecipient, wResult, wSends, wProcessed, wStore0, wRcpt0, wLog0,
                   wQ0, wRaised, expectedSent, nCycles>>
    /\ UNCHANGED <<schedVars, replyVars, storeVars, call, logDown, smtpResults, rng>>

\* Dashboard._on_delete_inbox for the selected inbox, confirmed
on_delete_inbox(email) ==
    /\ nEnv < MaxEnv
    /\ email \in StoredEmails
    /\ nEnv' = nEnv + 1
    /\ inboxRows' = delete(inboxRows, email)
    /\ wForeign' = (wForeign \/ InFlight)
    /\ UNCHANGED <<recipientRows, logRows, uiQueue, now, wPc, wActive, wIdx,
                   wRecipient, wResult, wSends, wProcessed, wStore0, wRcpt0, wLog0,
                   wQ0, wRaised, expectedSent, nCycles>>
    /\ UNCHANGED <<schedVars, replyVars, storeVars, call, logDown, smtpResults, rng>>

\* time passes: a scheduler tick, a quarter of an hour, half a day
ClockSteps == {60, 900, 12 * 3600}

Tick ==
    /\ nEnv < MaxEnv
    /\ nEnv' = nEnv + 1
    /\ \E d \in ClockSteps : now' = now + d
    /\ UNCHANGED <<inboxRows, recipientRows, logRows, uiQueue, wPc, wActive, wIdx,
                   wRecipient, wResult, wSends, wProcessed, wStore0, wRcpt0, wLog0,
                   wQ0, wForeign, wRaised, expectedSent, nCycles>>
    /\ UNCHANGED <<schedVars, replyVars, storeVars, call, logDown, smtpResults, rng>>

----------------------------------------------------------------------------
(* core/reply_engine.py, core/imap_engine.py.  A message of a mailbox is    *)
(* [uid, subject, seen]; a subject is one of a few the model draws.         *)

\* a subject is the sequence of its characters
SubjHello == <<"H", "e", "l", "l", "o", " ", "t", "h", "e", "r", "e">>

SubjOutOfOffice == <<"O", "u", "t", " ", "O", "f", " ", "O", "f", "f", "i", "c", "e">>

SubjUnsubscribe == <<"R", "e", ":", " ", "U", "N", "S", "U", "B", "S", "C", "R", "I", "B", "E">>

SubjNoReply == <<"N", "o", " ", "r", "e", "p", "l", "y", " ", "y", "e", "t">>

Subjects == {SubjHello, SubjOutOfOffice, SubjUnsubscribe, SubjNoReply}

UpperCase == <<"A", "B", "C", "D", "E", "F", "G", "H", "I", "J", "K", "L", "M", "N", "O", "P", "Q", "R", "S", "T", "U", "V", "W", "X", "Y", "Z">>

LowerCase == <<"a", "b", "c", "d", "e", "f", "g", "h", "i", "j", "k", "l", "m", "n", "o", "p", "q", "r", "s", "t", "u", "v", "w", "x", "y", "z">>

\* mutant: the subject is compared as it was written
lower_mut(subject) == subject

\* str.lower(), on ASCII subjects
lower(subject) ==
    [i \in DOMAIN subject |->
        IF \E k \in DOMAIN UpperCase : UpperCase[k] = subject[i]
        THEN LowerCase[CHOOSE k \in DOMAIN UpperCase : UpperCase[k] = subject[i]]
        ELSE subject[i]]

\* the keywords of _should_reply
SYSTEM_TERMS ==
    { <<"u", "n", "s", "u", "b", "s", "c", "r", "i", "b", "e">>,
      <<"n", "o", "-", "r", "e", "p", "l", "y">>,
      <<"n", "o", "r", "e", "p", "l", "y">>,
      <<"b", "o", "u", "n", "c", "e">>,
      <<"a", "u", "t", "o", "-", "r", "e", "p", "l", "y">>,
      <<"o", "u", "t", " ", "o", "f", " ", "o", "f", "f", "i", "c", "e">>,
      <<"v", "a", "c", "a", "t", "i", "o", "n">>,
      <<"d", "e", "l", "i", "v", "e", "r", "y", " ", "f", "a", "i", "l", "u", "r", "e">> }

\* kw in subject: kw occurs as a run of consecutive characters
contains(kw, subject) ==
    \E i \in 0..(Len(subject) - Len(kw)) : SubSeq(subject, i + 1, i + Len(kw)) = kw

\* any(kw in subject for kw in [...])
has_system_term(lowered) == \E kw \in SYSTEM_TERMS : contains(kw, lowered)

\* _should_reply; draw is random.random() < self.reply_rate
should_reply(msg, draw) ==
    IF has_system_term(lower(msg.subject)) THEN FALSE ELSE draw

Message(uid, subject, seen) == [uid |-> uid, subject |-> subject, seen |-> seen]

\* client.search(["UNSEEN"])
unseen(folder) == SelectSeq(folder, LAMBDA m : ~m.seen)

\* the unseen messages are fetched in batches of ten
BATCH == 10

num_batches(uids) == (Len(uids) + BATCH - 1) \div BATCH

\* set_flags(batch, [SEEN]) after each batch fetched: the unseen messages of
\* the first `done` batches are seen (set_flags is taken to succeed)
mark_seen(folder, done) ==
    [i \in DOMAIN folder |->
        IF /\ ~folder[i].seen
           /\ Cardinality({j \in 1..i : ~folder[j].seen}) <= done * BATCH
        THEN [folder[i] EXCEPT !.seen = TRUE]
        ELSE folder[i]]

\* fetch_unseen when `done` batches are fetched before the connection fails:
\* the messages of all batches, or [] from the except clause
fetch_unseen(folder, done) ==
    IF done = num_batches(unseen(folder)) THEN unseen(folder) ELSE <<>>

ReplyInbox == rActive[rIdx]

\* mutant: a reply that bounces hard is logged as a bounce
reply_log_event_mut(result) ==
    IF result = "success" THEN "REPLY" ELSE IF result = "hard" THEN "BOUNCE" ELSE "ERROR"

\* _send_reply: the kind of row logged for the result of the reply's send
reply_log_event(result) == IF result = "success" THEN "REPLY" ELSE "ERROR"

\* run_reply_cycle up to the loop: get_active() returns the list or raises,
\* and on an exception run_reply_cycle logs and returns
run_reply_cycle ==
    /\ rPc \in {"idle", "done", "aborted"}
    /\ nReplyCycles < MaxReplyCycles
    /\ nReplyCycles' = nReplyCycles + 1
    /\ \E loaded \in BOOLEAN :
        IF loaded
        THEN rActive' = get_active(inboxRows) /\ rPc' = "loop"
        ELSE rActive' = <<>> /\ rPc' = "aborted"
    /\ rIdx' = 1
    /\ rMsgs' = <<>>
    /\ rProcessed' = <<>>
    /\ rReplies' = <<>>
    /\ rRaised' = {}
    /\ UNCHANGED <<mailbox, logRows, uiQueue>>
    /\ UNCHANGED <<engineQuiet, schedVars, storeVars, call, logDown, smtpResults, rng>>

\* _process_inbox_replies up to the loop over the messages: fetch_unseen
\* returns the unseen messages, now seen, or returns [] on a connection
\* error it catches, which can come before any batch or between two
process_inbox_replies ==
    /\ rPc = "loop"
    /\ rIdx <= Len(rActive)
    /\ rProcessed' = Append(rProcessed, ReplyInbox.email)
    /\ \E done \in 0..num_batches(unseen(mailbox[ReplyInbox.email])) :
        LET e == ReplyInbox.email
            messages == fetch_unseen(mailbox[e], done)
        IN  /\ mailbox' = [mailbox EXCEPT ![e] = mark_seen(@, done)]
            /\ rMsgs' = messages
            /\ IF messages = <<>>
               THEN rIdx' = rIdx + 1 /\ rPc' = "loop"
               ELSE rIdx' = rIdx /\ rPc' = "replying"
    /\ UNCHANGED <<rActive, rReplies, rRaised, nReplyCycles, logRows, uiQueue>>
    /\ UNCHANGED <<engineQuiet, schedVars, storeVars, call, logDown, smtpResults, rng>>

\* an exception leaves _process_inbox_replies (fetch_unseen catches only
\* IMAPClientError, OSError, TimeoutError and RuntimeError; generate_email
\* may raise): run_reply_cycle logs it and goes on.  The messages not yet
\* handled are dropped.
process_inbox_replies_raises ==
    /\ \/ /\ rPc = "loop"
          /\ rIdx <= Len(rActive)
          /\ rProcessed' = Append(rProcessed, ReplyInbox.email)
       \/ /\ rPc = "replying"
          /\ UNCHANGED rProcessed
    /\ rRaised' = rRaised \cup {ReplyInbox.email}
    /\ rMsgs' = <<>>
    /\ rIdx' = next_after_raise(rIdx, Len(rActive))
    /\ rPc' = "loop"
    /\ UNCHANGED <<mailbox, rActive, rReplies, nReplyCycles, logRows, uiQueue>>
    /\ UNCHANGED <<engineQuiet, schedVars, storeVars, call, logDown, smtpResults, rng>>

\* one turn of the loop over the messages: _should_reply, then _send_reply
reply_message ==
    /\ rPc = "replying"
    /\ LET msg == Head(rMsgs)
           inbox == ReplyInbox
       IN  \E draw \in BOOLEAN, result \in SendResults :
           IF should_reply(msg, draw)
           THEN /\ rReplies' = Append(rReplies, [from |-> inbox.email,
                                    uid |-> msg.uid, result |-> result])
                /\ logRows' = log_write(logRows, now, inbox.email,
                                        reply_log_event(result),
                                        IF result = "success" THEN "sender" ELSE "")
                /\ uiQueue' = post_ui(uiQueue, IF result = "success" THEN "reply"
                                               ELSE "error", inbox.email)
           ELSE UNCHANGED <<rReplies, logRows, uiQueue>>
    /\ rMsgs' = Tail(rMsgs)
    /\ IF Tail(rMsgs) = <<>>
       THEN rIdx' = rIdx + 1 /\ rPc' = "loop"
       ELSE UNCHANGED <<rIdx, rPc>>
    /\ UNCHANGED <<mailbox, rActive, rProcessed, rRaised, nReplyCycles>>
    /\ UNCHANGED <<engineQuiet, schedVars, storeVars, call, logDown, smtpResults, rng>>

\* run_reply_cycle: the loop is over
run_reply_cycle_return ==
    /\ rPc = "loop"
    /\ rIdx > Len(rActive)
    /\ rPc' = "done"
    /\ UNCHANGED <<mailbox, rActive, rIdx, rMsgs, rProcessed, rReplies, rRaised,
                   nReplyCycles, logRows, uiQueue>>
    /\ UNCHANGED <<engineQuiet, schedVars, storeVars, call, logDown, smtpResults, rng>>

----------------------------------------------------------------------------
(* scheduler.py: WarmupScheduler over APScheduler's BackgroundScheduler.     *)
(* The three jobs, the defaults coalesce=True, max_instances=1,              *)
(* misfire_grace_time=120 and the pool of 4 workers are set in __init__ and  *)
(* start(); the scheduler's own steps follow APScheduler 3.x.                *)

JOB_WARMUP == "warmup_cycle"

JOB_REPLY == "reply_cycle"

JOB_RESET == "daily_reset"

Jobs == {JOB_WARMUP, JOB_REPLY, JOB_RESET}

max_instances == 1

misfire_grace_time == 120

max_workers == 4

Day == 24 * 3600

\* CronTrigger(hour=0, minute=0, second=30): the first 00:00:30 at or after t
NextDaily(t) ==
    IF (t \div Day) * Day + 30 >= t THEN (t \div Day) * Day + 30
    ELSE (t \div Day + 1) * Day + 30

\* the period of a job's trigger
Interval(job) ==
    CASE job = JOB_WARMUP -> 60
      [] job = JOB_REPLY -> 5 * 60
      [] OTHER -> Day

\* add_job: next_run_time of a job whose trigger is created at t.  An
\* IntervalTrigger starts one interval after its creation.
FirstFire(job, t) ==
    IF job = JOB_RESET THEN NextDaily(t) ELSE t + Interval(job)

\* coalesce=True: of the run times due at t, the last one
LastDue(job, t) ==
    jobNext[job] + Interval(job) * ((t - jobNext[job]) \div Interval(job))

SchedInit ==
    /\ running = FALSE
    /\ schedState = "stopped"
    /\ poolShut = FALSE
    /\ jobNext = [j \in Jobs |-> Never]
    /\ instances = [j \in Jobs |-> 0]
    /\ lastFire = [j \in Jobs |-> "none"]
    /\ lastCall = [op |-> "none", was_running |-> FALSE]
    /\ wasShutDown = FALSE
    /\ nCalls = 0
    /\ nSched = 0

Called(op) ==
    /\ nCalls < MaxCalls
    /\ nCalls' = nCalls + 1
    /\ lastCall' = [op |-> op, was_running |-> running]
    /\ wasShutDown' = (wasShutDown \/ op = "shutdown")

\* mutant: start() without its guard
start_returns_mut == FALSE

\* start(): if self._running: return
start_returns == running

\* stop(): if not self._running: return
stop_returns == ~running

\* resume(): if self._running: return
resume_returns == running

\* start(): the three add_job(replace_existing=True) calls, then
\* scheduler.resume() on a paused scheduler and scheduler.start() otherwise,
\* which APScheduler accepts on a scheduler that was shut down
start ==
    /\ Called("start")
    /\ IF start_returns
       THEN UNCHANGED <<running, schedState, jobNext, uiQueue>>
       ELSE /\ jobNext' = [j \in Jobs |-> FirstFire(j, now)]
            /\ schedState' = "running"
            /\ running' = TRUE
            /\ uiQueue' = post_ui(uiQueue, "status", "system")
    /\ UNCHANGED <<poolShut, instances, lastFire, nSched, now>>
    /\ UNCHANGED <<engineOnly, replyVars, storeVars, call, logDown, smtpResults, rng>>

\* stop(): scheduler.pause()
stop ==
    /\ Called("stop")
    /\ IF stop_returns
       THEN UNCHANGED <<running, schedState, uiQueue>>
       ELSE /\ schedState' = "paused"
            /\ running' = FALSE
            /\ uiQueue' = post_ui(uiQueue, "status", "system")
    /\ UNCHANGED <<poolShut, jobNext, instances, lastFire, nSched, now>>
    /\ UNCHANGED <<engineOnly, replyVars, storeVars, call, logDown, smtpResults, rng>>

\* resume(): scheduler.resume() raises SchedulerNotRunningError on a stopped
\* scheduler, and the method ends there
resume_scheduler ==
    /\ Called("resume")
    /\ IF resume_returns \/ schedState = "stopped"
       THEN UNCHANGED <<running, schedState, uiQueue>>
       ELSE /\ schedState' = "running"
            /\ running' = TRUE
            /\ uiQueue' = post_ui(uiQueue, "status", "system")
    /\ UNCHANGED <<poolShut, jobNext, instances, lastFire, nSched, now>>
    /\ UNCHANGED <<engineOnly, replyVars, storeVars, call, logDown, smtpResults, rng>>

\* shutdown(wait=False): scheduler.shutdown raises on a stopped scheduler
\* (swallowed); otherwise it stops the scheduler, shuts the pool down and
\* empties the memory job store.  Executions in progress go on.
shutdown ==
    /\ Called("shutdown")
    /\ IF schedState = "stopped"
       THEN UNCHANGED <<schedState, poolShut, jobNext>>
       ELSE /\ schedState' = "stopped"
            /\ poolShut' = TRUE
            /\ jobNext' = [j \in Jobs |-> Never]
    /\ running' = FALSE
    /\ UNCHANGED <<instances, lastFire, nSched, now, uiQueue>>
    /\ UNCHANGED <<engineOnly, replyVars, storeVars, call, logDown, smtpResults, rng>>

\* mutant: a paused scheduler goes on processing its due jobs
processes_jobs_mut == schedState # "stopped"

\* stop() pauses the scheduler and shutdown() stops it: due jobs are processed
\* only by a scheduler that start() or resume() has put in the running state
processes_jobs == schedState = "running"

\* mutant: one instance more than configured
can_submit_mut(job) == instances[job] <= max_instances

\* executor.submit_job: MaxInstancesReachedError unless an instance is free
can_submit(job) == instances[job] < max_instances

Due(job) == jobNext[job] # Never /\ jobNext[job] <= now

\* _process_jobs for one due job of a running scheduler: the coalesced run is
\* skipped (max instances reached), or cannot be submitted (the pool is shut
\* down), or is submitted; a run submitted later than misfire_grace_time holds
\* its instance but the worker does not call the job.  next_run_time moves on
process_job(job) ==
    /\ processes_jobs
    /\ Due(job)
    /\ jobNext' = [jobNext EXCEPT ![job] = LastDue(job, now) + Interval(job)]
    /\ IF ~can_submit(job)
       THEN /\ lastFire' = [lastFire EXCEPT ![job] = "skipped"]
            /\ UNCHANGED instances
       ELSE IF poolShut
       THEN /\ lastFire' = [lastFire EXCEPT ![job] = "failed"]
            /\ UNCHANGED instances
       ELSE IF now - LastDue(job, now) > misfire_grace_time
       THEN /\ lastFire' = [lastFire EXCEPT ![job] = "missed"]
            /\ instances' = [instances EXCEPT ![job] = @ + 1]
       ELSE /\ lastFire' = [lastFire EXCEPT ![job] = "run"]
            /\ instances' = [instances EXCEPT ![job] = @ + 1]
    /\ UNCHANGED <<running, schedState, poolShut, lastCall, wasShutDown, nCalls,
                   nSched, now, uiQueue>>
    /\ UNCHANGED <<engineOnly, replyVars, storeVars, call, logDown, smtpResults, rng>>

\* mutant: the listener reports nothing
on_job_event_mut(queue, raised) == queue

\* _on_job_event, called for EVENT_JOB_ERROR and EVENT_JOB_EXECUTED
on_job_event(queue, raised) ==
    IF raised THEN post_ui(queue, "error", "system") ELSE queue

\* an execution ends, by returning or by raising; a run dropped as a misfire
\* never called the job and cannot raise
job_done(job, raised) ==
    /\ instances[job] > 0
    /\ raised => lastFire[job] # "missed"
    /\ instances' = [instances EXCEPT ![job] = @ - 1]
    /\ uiQueue' = on_job_event(uiQueue, raised)
    /\ UNCHANGED <<running, schedState, poolShut, jobNext, lastFire, lastCall,
                   wasShutDown, nCalls, nSched, now>>
    /\ UNCHANGED <<engineOnly, replyVars, storeVars, call, logDown, smtpResults, rng>>

\* time passes for the scheduler
SchedSteps == {30, 60, 5 * 60}

SchedTick ==
    /\ nSched < MaxSched
    /\ nSched' = nSched + 1
    /\ \E d \in SchedSteps : now' = now + d
    /\ UNCHANGED <<running, schedState, poolShut, jobNext, instances, lastFire,
                   lastCall, wasShutDown, nCalls, uiQueue>>
    /\ UNCHANGED <<engineOnly, replyVars, storeVars, call, logDown, smtpResults, rng>>

----------------------------------------------------------------------------
(* The InboxStore called from outside the cycles: one action for each method *)
(* that writes inboxes.csv                                                   *)

StoreIdle ==
    /\ nOps = 0
    /\ lastOp = [op |-> "none", email |-> "", raised |-> FALSE]

\* a call of the method on the store: the rows it leaves, and whether it raised
StoreCall(op, email, rows, raised) ==
    /\ nOps < MaxOps
    /\ nOps' = nOps + 1
    /\ lastOp' = [op |-> op, email |-> email, raised |-> raised]
    /\ inboxRows' = rows

\* what a call on the store leaves alone
StoreFrame ==
    /\ UNCHANGED <<recipientRows, logRows, uiQueue, now, wPc, wActive, wIdx,
                   wRecipient, wResult, wSends, wProcessed, wStore0, wRcpt0, wLog0,
                   wQ0, wForeign, wRaised, expectedSent, nCycles, nEnv>>
    /\ UNCHANGED <<schedVars, replyVars, call, logDown, smtpResults, rng>>

\* the records a caller hands to add and update
NewRecords(email) ==
    {InboxRecord(email, "conn", stage, sent, get_daily_limit(stage), "active",
                 Never, "", <<8, 0>>, <<20, 0>>, "name") :
        stage \in {1, 3}, sent \in {0, 2}}

store_add(email) ==
    /\ \E record \in NewRecords(email) :
        StoreCall("add", email, add(inboxRows, record), add_raises(inboxRows, record))
    /\ StoreFrame

store_update(email) ==
    /\ \E record \in NewRecords(email) :
        StoreCall("update", email, update(inboxRows, record),
                  update_raises(inboxRows, record))
    /\ StoreFrame

store_delete(email) ==
    /\ StoreCall("delete", email, delete(inboxRows, email), FALSE)
    /\ StoreFrame

store_pause(email) ==
    /\ StoreCall("pause", email, pause(inboxRows, email, "Manually paused"), FALSE)
    /\ StoreFrame

store_resume(email) ==
    /\ StoreCall("resume", email, resume(inboxRows, email), FALSE)
    /\ StoreFrame

store_mark_error(email) ==
    /\ StoreCall("mark_error", email,
                 mark_error(inboxRows, email, "Authentication failed"), FALSE)
    /\ StoreFrame

store_update_stage(email) ==
    /\ \E stage \in 1..MAX_STAGE :
        StoreCall("update_stage", email, update_stage(inboxRows, email, stage), FALSE)
    /\ StoreFrame

store_reset_daily_counts ==
    /\ StoreCall("reset_daily_counts", "", reset_daily_counts(inboxRows), FALSE)
    /\ StoreFrame

----------------------------------------------------------------------------
(* Initial states: stores the program can have on disk when it starts *)

InboxEmails == {"a1", "a2"}

AllDay == <<<<0, 0>>, <<23, 59>>>>

Office == <<<<8, 0>>, <<20, 0>>>>

StartTime == 24 * 3600

\* an inbox as AddInboxDialog._save adds it, after some days of use
InitInbox(email, stage, daily_sent, status, hours) ==
    InboxRecord(email, "conn", stage, daily_sent, get_daily_limit(stage), status,
                Never, "", hours[1], hours[2], "name")

InitA1 ==
    {InitInbox("a1", 1, 0, "active", AllDay),
     InitInbox("a1", 1, 4, "active", AllDay),
     InitInbox("a1", 4, 39, "active", Office),
     InitInbox("a1", 4, 40, "active", AllDay)}

InitA2 == InitInbox("a2", 2, 14, "active", AllDay)

InitInboxStores ==
    {<<x>> : x \in InitA1} \cup
    {<<x, InitA2>> : x \in InitA1} \cup
    {<<InitA2, InitInbox("a1", 1, 4, "active", AllDay)>>,
     <<mark_error(<<InitInbox("a1", 1, 0, "active", AllDay)>>, "a1",
                  "Authentication failed")[1], InitA2>>,
     <<pause(<<InitInbox("a1", 1, 0, "active", AllDay)>>, "a1", "Manually paused")[1],
       InitA2>>}

InitRecipientStores ==
    { <<>>,
      <<RecipientRecord("r1", TRUE, 0, Never)>>,
      <<RecipientRecord("r1", TRUE, 2, 12 * 3600),
        RecipientRecord("r2", TRUE, 0, Never)>>,
      <<RecipientRecord("r1", FALSE, 0, Never),
        RecipientRecord("r2", TRUE, 0, Never)>>,
      <<RecipientRecord("a1", TRUE, 0, Never),
        RecipientRecord("r1", TRUE, 1, 12 * 3600)>>,
      <<RecipientRecord("a1", TRUE, 0, Never)>>,
      <<RecipientRecord("r1", TRUE, 1, 12 * 3600),
        RecipientRecord("r2", TRUE, 1, 6 * 3600)>> }

\* no ReplyCycle has run; the mailboxes are empty
ReplyIdle ==
    /\ rPc = "idle"
    /\ rActive = <<>>
    /\ rIdx = 1
    /\ rMsgs = <<>>
    /\ rProcessed = <<>>
    /\ rReplies = <<>>
    /\ rRaised = {}
    /\ nReplyCycles = 0

EmptyMailboxes == [e \in InboxEmails |-> <<>>]

\* n SEND rows of one inbox, a second apart, the last one at time t
SendRows(email, n, t) ==
    [k \in 1..n |-> LogRecord(t - (n - k), email, "SEND", "r1")]

\* logs.csv after earlier cycles: a1's sends of the last day (one, nineteen,
\* twenty), or one send of a1 older than a day
InitLogs ==
    { SendRows("a1", 1, StartTime - 3600),
      SendRows("a1", 19, StartTime - 3600),
      SendRows("a1", 20, StartTime - 3600),
      SendRows("a1", 1, StartTime - 12 * 3600),
      SendRows("a1", 1, StartTime - 25 * 3600),
      SendRows("a1", 1, StartTime - 400),
      SendRows("a1", 1, StartTime - 200) }

\* the files the program finds: <<inboxes.csv, recipients.csv, logs.csv>>
InitStores ==
    {<<i, r, <<>> >> : i \in InitInboxStores, r \in InitRecipientStores} \cup
    {<<<<[InitInbox("a1", 3, 20, "active", AllDay)
            EXCEPT !.last_sent_at = l[Len(l)].timestamp]>>,
       <<RecipientRecord("r1", TRUE, 20, l[Len(l)].timestamp),
         RecipientRecord("r2", TRUE, 0, Never)>>,
       l>> : l \in InitLogs}

Init ==
    /\ mailbox = EmptyMailboxes
    /\ ReplyIdle
    /\ \E st \in InitStores :
        /\ inboxRows = st[1]
        /\ recipientRows = st[2]
        /\ logRows = st[3]
    /\ uiQueue = <<>>
    /\ now = StartTime
    /\ wPc = "idle"
    /\ wActive = <<>>
    /\ wIdx = 1
    /\ wRecipient = ""
    /\ wResult = ""
    /\ wSends = <<>>
    /\ wProcessed = <<>>
    /\ wStore0 = <<>>
    /\ wRcpt0 = <<>>
    /\ wLog0 = 0
    /\ wQ0 = 0
    /\ wForeign = FALSE
    /\ wRaised = {}
    /\ expectedSent = [e \in InboxEmails |->
                        IF RowIndex(inboxRows, e) = 0 THEN 0
                        ELSE find(inboxRows, e).daily_sent]
    /\ nCycles = 0
    /\ nEnv = 0
    /\ SchedInit
    /\ StoreIdle
    /\ call = NoCall
    /\ logDown = FALSE
    /\ smtpResults = SendResults
    /\ rng = "any"

Next ==
    \/ run_cycle
    \/ process_inbox
    \/ process_inbox_raises
    \/ finish_send
    \/ run_cycle_return
    \/ daily_reset
    \/ \E e \in InboxEmails : on_pause_inbox(e)
    \/ \E e \in InboxEmails, s \in EditStages : edit_stage_save(e, s)
    \/ \E e \in InboxEmails : on_delete_inbox(e)
    \/ Tick

Spec == Init /\ [][Next]_vars

----------------------------------------------------------------------------
(* The WarmupCycle with a logs.csv that stops taking rows (disk full, file *)
(* read-only): LogStore.append raises from then on, reading still works.   *)

append_starts_failing ==
    /\ ~logDown
    /\ logDown' = TRUE
    /\ UNCHANGED <<engineVars, schedVars, replyVars, storeVars, call, smtpResults, rng>>

NextLog == Next \/ append_starts_failing

SpecLog == Init /\ [][NextLog]_vars

----------------------------------------------------------------------------
(* The two cycles side by side, with the dashboard deleting inboxes *)

InitMailboxes ==
    { [a1 |-> <<Message(1, SubjHello, FALSE)>>,
       a2 |-> <<Message(1, SubjHello, TRUE), Message(2, SubjNoReply, FALSE)>>],
      [a1 |-> <<Message(1, SubjOutOfOffice, FALSE), Message(2, SubjHello, FALSE)>>,
       a2 |-> <<Message(1, SubjUnsubscribe, FALSE)>>] }

CyclesInboxStores ==
    { <<InitInbox("a1", 1, 0, "active", AllDay), InitA2>>,
      <<InitInbox("a1", 1, 4, "active", AllDay)>> }

CyclesRecipientStores ==
    { <<RecipientRecord("r1", TRUE, 1, 12 * 3600),
        RecipientRecord("r2", TRUE, 0, Never)>> }

InitCycles ==
    /\ mailbox \in InitMailboxes
    /\ ReplyIdle
    /\ inboxRows \in CyclesInboxStores
    /\ recipientRows \in CyclesRecipientStores
    /\ logRows = <<>>
    /\ uiQueue = <<>>
    /\ now = StartTime
    /\ wPc = "idle"
    /\ wActive = <<>>
    /\ wIdx = 1
    /\ wRecipient = ""
    /\ wResult = ""
    /\ wSends = <<>>
    /\ wProcessed = <<>>
    /\ wStore0 = <<>>
    /\ wRcpt0 = <<>>
    /\ wLog0 = 0
    /\ wQ0 = 0
    /\ wForeign = FALSE
    /\ wRaised = {}
    /\ expectedSent = [e \in InboxEmails |->
                        IF RowIndex(inboxRows, e) = 0 THEN 0
                        ELSE find(inboxRows, e).daily_sent]
    /\ nCycles = 0
    /\ nEnv = 0
    /\ SchedInit
    /\ StoreIdle
    /\ call = NoCall
    /\ logDown = FALSE
    /\ smtpResults = SendResults
    /\ rng = "any"

NextCycles ==
    \/ run_cycle
    \/ process_inbox
    \/ process_inbox_raises
    \/ finish_send
    \/ run_cycle_return
    \/ run_reply_cycle
    \/ process_inbox_replies
    \/ process_inbox_replies_raises
    \/ reply_message
    \/ run_reply_cycle_return
    \/ \E e \in InboxEmails : on_delete_inbox(e)

SpecCycles == InitCycles /\ [][NextCycles]_vars

----------------------------------------------------------------------------
(* The reply cycle on its own, on mailboxes that take more than one batch *)

\* eleven unseen messages in a1's mailbox, nine of them automatic
BigMailbox ==
    [a1 |-> [i \in 1..11 |-> Message(i, IF i <= 9 THEN SubjOutOfOffice ELSE SubjHello,
                                     FALSE)],
     a2 |-> <<Message(1, SubjNoReply, FALSE)>>]

ReplyMailboxes == InitMailboxes \cup {BigMailbox}

InitReply ==
    /\ mailbox \in ReplyMailboxes
    /\ ReplyIdle
    /\ inboxRows \in CyclesInboxStores
    /\ recipientRows \in CyclesRecipientStores
    /\ logRows = <<>>
    /\ uiQueue = <<>>
    /\ now = StartTime
    /\ wPc = "idle"
    /\ wActive = <<>>
    /\ wIdx = 1
    /\ wRecipient = ""
    /\ wResult = ""
    /\ wSends = <<>>
    /\ wProcessed = <<>>
    /\ wStore0 = <<>>
    /\ wRcpt0 = <<>>
    /\ wLog0 = 0
    /\ wQ0 = 0
    /\ wForeign = FALSE
    /\ wRaised = {}
    /\ expectedSent = [e \in InboxEmails |->
                        IF RowIndex(inboxRows, e) = 0 THEN 0
                        ELSE find(inboxRows, e).daily_sent]
    /\ nCycles = 0
    /\ nEnv = 0
    /\ SchedInit
    /\ StoreIdle
    /\ call = NoCall
    /\ logDown = FALSE
    /\ smtpResults = SendResults
    /\ rng = "any"

NextReply ==
    \/ run_reply_cycle
    \/ process_inbox_replies
    \/ process_inbox_replies_raises
    \/ reply_message
    \/ run_reply_cycle_return
    \/ \E e \in InboxEmails : on_delete_inbox(e)

SpecReply == InitReply /\ [][NextReply]_vars

----------------------------------------------------------------------------
(* The two cycles posting to a queue the dashboard has not drained *)

\* n events waiting in the queue
Backlog(n) == [k \in 1..n |-> [type |-> "status", inbox |-> "system"]]

\* the queue is full, or one or two events short of it
InitBacklogs == {Backlog(QUEUE_MAXSIZE - d) : d \in 0..2}

InitQueue ==
    /\ mailbox = [a1 |-> <<Message(1, SubjHello, FALSE)>>, a2 |-> <<>>]
    /\ ReplyIdle
    /\ inboxRows = <<InitInbox("a1", 1, 4, "active", AllDay)>>
    /\ recipientRows \in CyclesRecipientStores
    /\ logRows = <<>>
    /\ uiQueue \in InitBacklogs
    /\ now = StartTime
    /\ wPc = "idle"
    /\ wActive = <<>>
    /\ wIdx = 1
    /\ wRecipient = ""
    /\ wResult = ""
    /\ wSends = <<>>
    /\ wProcessed = <<>>
    /\ wStore0 = <<>>
    /\ wRcpt0 = <<>>
    /\ wLog0 = 0
    /\ wQ0 = 0
    /\ wForeign = FALSE
    /\ wRaised = {}
    /\ expectedSent = [e \in InboxEmails |->
                        IF RowIndex(inboxRows, e) = 0 THEN 0
                        ELSE find(inboxRows, e).daily_sent]
    /\ nCycles = 0
    /\ nEnv = 0
    /\ SchedInit
    /\ StoreIdle
    /\ call = NoCall
    /\ logDown = FALSE
    /\ smtpResults = SendResults
    /\ rng = "any"

SpecQueue == InitQueue /\ [][NextCycles]_vars

----------------------------------------------------------------------------
(* The three jobs side by side, and the stage edit of the dashboard: the   *)
(* WarmupCycle, the ReplyCycle and the daily reset over one inbox that is  *)
(* a send away from its quota, or at it.                                   *)

DayInboxStores ==
    { <<InitInbox("a1", 1, 4, "active", AllDay)>>,
      <<InitInbox("a1", 4, 39, "active", AllDay)>>,
      <<InitInbox("a1", 4, 40, "active", AllDay)>>,
      <<InitInbox("a1", 3, 20, "active", AllDay)>> }

InitDay ==
    /\ mailbox = [a1 |-> <<Message(1, SubjHello, FALSE)>>, a2 |-> <<>>]
    /\ ReplyIdle
    /\ inboxRows \in DayInboxStores
    /\ recipientRows \in CyclesRecipientStores
    /\ logRows = <<>>
    /\ uiQueue = <<>>
    /\ now = StartTime
    /\ wPc = "idle"
    /\ wActive = <<>>
    /\ wIdx = 1
    /\ wRecipient = ""
    /\ wResult = ""
    /\ wSends = <<>>
    /\ wProcessed = <<>>
    /\ wStore0 = <<>>
    /\ wRcpt0 = <<>>
    /\ wLog0 = 0
    /\ wQ0 = 0
    /\ wForeign = FALSE
    /\ wRaised = {}
    /\ expectedSent = [e \in InboxEmails |->
                        IF RowIndex(inboxRows, e) = 0 THEN 0
                        ELSE find(inboxRows, e).daily_sent]
    /\ nCycles = 0
    /\ nEnv = 0
    /\ SchedInit
    /\ StoreIdle
    /\ call = NoCall
    /\ logDown = FALSE
    /\ smtpResults = SendResults
    /\ rng = "any"

NextDay ==
    \/ run_cycle
    \/ process_inbox
    \/ process_inbox_raises
    \/ finish_send
    \/ run_cycle_return
    \/ run_reply_cycle
    \/ process_inbox_replies
    \/ process_inbox_replies_raises
    \/ reply_message
    \/ run_reply_cycle_return
    \/ daily_reset
    \/ \E e \in InboxEmails, s \in EditStages : edit_stage_save(e, s)

SpecDay == InitDay /\ [][NextDay]_vars

----------------------------------------------------------------------------
(* One inbox through a day and into the next: the warm-up job fires again  *)
(* and again, the servers take every mail, and the daily reset runs once,  *)
(* at any moment.  Of the firings (one a minute) the model follows one     *)
(* every hour and a half: by then every delay of stage 2 has run out, and  *)
(* the firings in between are those that draw a delay that has not.        *)

DayStep == 90 * 60

\* the interval trigger fires the warm-up job: run_cycle up to the loop,
\* DayStep after the firing before
warmup_job_fires ==
    /\ wPc \in {"idle", "done"}
    /\ nCycles < MaxDayCycles
    /\ nCycles' = nCycles + 1
    /\ now' = now + DayStep
    /\ wActive' = get_active(inboxRows)
    /\ wPc' = "loop"
    /\ wIdx' = 1
    /\ wRaised' = {}
    /\ wSends' = <<>>
    /\ wProcessed' = <<>>
    /\ wStore0' = inboxRows
    /\ wRcpt0' = recipientRows
    /\ wLog0' = Len(logRows)
    /\ wQ0' = Len(uiQueue)
    /\ wForeign' = FALSE
    /\ UNCHANGED <<inboxRows, recipientRows, logRows, uiQueue, wRecipient,
                   wResult, expectedSent, nEnv>>
    /\ UNCHANGED <<schedVars, replyVars, storeVars, call, logDown, smtpResults, rng>>

\* 06:00 of day 1: a1 is at stage 1 and has sent four of its five mails
InitPromo ==
    /\ mailbox = EmptyMailboxes
    /\ ReplyIdle
    /\ inboxRows = <<InitInbox("a1", 1, 4, "active", AllDay)>>
    /\ recipientRows \in CyclesRecipientStores
    /\ logRows = <<>>
    /\ uiQueue = <<>>
    /\ now = StartTime + 6 * 3600
    /\ wPc = "idle"
    /\ wActive = <<>>
    /\ wIdx = 1
    /\ wRecipient = ""
    /\ wResult = ""
    /\ wSends = <<>>
    /\ wProcessed = <<>>
    /\ wStore0 = <<>>
    /\ wRcpt0 = <<>>
    /\ wLog0 = 0
    /\ wQ0 = 0
    /\ wForeign = FALSE
    /\ wRaised = {}
    /\ expectedSent = [e \in InboxEmails |->
                        IF RowIndex(inboxRows, e) = 0 THEN 0
                        ELSE find(inboxRows, e).daily_sent]
    /\ nCycles = 0
    /\ nEnv = 0
    /\ SchedInit
    /\ StoreIdle
    /\ call = NoCall
    /\ logDown = FALSE
    /\ smtpResults = {"success"}
    /\ rng = "any"

NextPromo ==
    \/ warmup_job_fires
    \/ process_inbox
    \/ finish_send
    \/ run_cycle_return
    \/ daily_reset

SpecPromo == InitPromo /\ [][NextPromo]_vars

----------------------------------------------------------------------------
(* One inbox whose every mail comes back with a hard bounce, over a pool   *)
(* of two or three recipients: a new inbox with an empty log, and an inbox *)
(* with twenty sends of the last hours in the log.                         *)

BouncePool(n) == [k \in 1..n |-> RecipientRecord(<<"r1", "r2", "r3">>[k], TRUE, 0, Never)]

\* <<inboxes.csv, recipients.csv, logs.csv>>
BounceStores ==
    { <<<<InitInbox("a1", 1, 0, "active", AllDay)>>, BouncePool(2), <<>> >>,
      <<<<InitInbox("a1", 1, 0, "active", AllDay)>>, BouncePool(3), <<>> >>,
      <<<<[InitInbox("a1", 3, 20, "active", AllDay)
              EXCEPT !.last_sent_at = StartTime - 3600]>>,
        BouncePool(3), SendRows("a1", 20, StartTime - 3600)>> }

InitBounce ==
    /\ mailbox = EmptyMailboxes
    /\ ReplyIdle
    /\ \E st \in BounceStores :
        /\ inboxRows = st[1]
        /\ recipientRows = st[2]
        /\ logRows = st[3]
    /\ uiQueue = <<>>
    /\ now = StartTime
    /\ wPc = "idle"
    /\ wActive = <<>>
    /\ wIdx = 1
    /\ wRecipient = ""
    /\ wResult = ""
    /\ wSends = <<>>
    /\ wProcessed = <<>>
    /\ wStore0 = <<>>
    /\ wRcpt0 = <<>>
    /\ wLog0 = 0
    /\ wQ0 = 0
    /\ wForeign = FALSE
    /\ wRaised = {}
    /\ expectedSent = [e \in InboxEmails |->
                        IF RowIndex(inboxRows, e) = 0 THEN 0
                        ELSE find(inboxRows, e).daily_sent]
    /\ nCycles = 0
    /\ nEnv = 0
    /\ SchedInit
    /\ StoreIdle
    /\ call = NoCall
    /\ logDown = FALSE
    /\ smtpResults = {"hard"}
    /\ rng = "any"

NextBounce ==
    \/ warmup_job_fires
    \/ process_inbox
    \/ finish_send
    \/ run_cycle_return

\* the scheduler goes on firing the job and a cycle under way goes on
SpecBounce == InitBounce /\ [][NextBounce]_vars /\ WF_vars(NextBounce)

\* ---------------------------------------------------------------------
\* Several days of the outbound job and the midnight reset, with every
\* send succeeding and the delay draws of a run all short or all long
\* ---------------------------------------------------------------------
HalfHour == 30 * 60

\* the interval trigger fires the warm-up job, HalfHour after the firing
\* before and after the reset that was due: run_cycle up to the loop
half_hour_firing ==
    /\ wPc \in {"idle", "done"}
    /\ nCycles < MaxClimbCycles
    /\ nEnv >= (now - StartTime) \div Day
    /\ nCycles' = nCycles + 1
    /\ now' = now + HalfHour
    /\ wActive' = get_active(inboxRows)
    /\ wPc' = "loop"
    /\ wIdx' = 1
    /\ wRaised' = {}
    /\ wSends' = <<>>
    /\ wProcessed' = <<>>
    /\ wStore0' = inboxRows
    /\ wRcpt0' = recipientRows
    /\ wLog0' = Len(logRows)
    /\ wQ0' = Len(uiQueue)
    /\ wForeign' = FALSE
    /\ UNCHANGED <<inboxRows, recipientRows, logRows, uiQueue, wRecipient,
                   wResult, expectedSent, nEnv>>
    /\ UNCHANGED <<schedVars, replyVars, storeVars, call, logDown, smtpResults, rng>>

\* the cron trigger of 00:00:30 fires _run_daily_reset: once for each
\* midnight the clock has passed
midnight_reset ==
    /\ nEnv < (now - StartTime) \div Day
    /\ nEnv' = nEnv + 1
    /\ inboxRows' = reset_daily_counts(inboxRows)
    /\ expectedSent' = [e \in DOMAIN expectedSent |-> 0]
    /\ wForeign' = (wForeign \/ InFlight)
    /\ UNCHANGED <<recipientRows, logRows, uiQueue, now, wPc, wActive, wIdx,
                   wRecipient, wResult, wSends, wProcessed, wStore0, wRcpt0, wLog0,
                   wQ0, wRaised, nCycles>>
    /\ UNCHANGED <<schedVars, replyVars, storeVars, call, logDown, smtpResults, rng>>

\* a1 on the morning of day 1, after the reset: new at stage 1, or at
\* stage 2 or 3 with nothing sent yet; working all day, or at stage 3 with
\* working hours of 09:00 to 10:00
ClimbInboxStores ==
    {<<InitInbox("a1", st, 0, "active", AllDay)>> : st \in 1..3} \cup
    {<<InitInbox("a1", 3, 0, "active", <<<<9, 0>>, <<10, 0>>>>)>>}

InitClimb ==
    /\ mailbox = EmptyMailboxes
    /\ ReplyIdle
    /\ inboxRows \in ClimbInboxStores
    /\ recipientRows \in CyclesRecipientStores
    /\ logRows = <<>>
    /\ uiQueue = <<>>
    /\ now = StartTime
    /\ wPc = "idle"
    /\ wActive = <<>>
    /\ wIdx = 1
    /\ wRecipient = ""
    /\ wResult = ""
    /\ wSends = <<>>
    /\ wProcessed = <<>>
    /\ wStore0 = <<>>
    /\ wRcpt0 = <<>>
    /\ wLog0 = 0
    /\ wQ0 = 0
    /\ wForeign = FALSE
    /\ wRaised = {}
    /\ expectedSent = [e \in InboxEmails |->
                        IF RowIndex(inboxRows, e) = 0 THEN 0
                        ELSE find(inboxRows, e).daily_sent]
    /\ nCycles = 0
    /\ nEnv = 0
    /\ SchedInit
    /\ StoreIdle
    /\ call = NoCall
    /\ logDown = FALSE
    /\ smtpResults = {"success"}
    /\ rng \in {"short", "long"}

NextClimb ==
    \/ half_hour_firing
    \/ process_inbox
    \/ finish_send
    \/ run_cycle_return
    \/ midnight_reset

\* both jobs stay scheduled: the interval trigger and the cron trigger
\* keep firing, and a cycle that has begun runs to its end
SpecClimb == InitClimb /\ [][NextClimb]_vars /\ WF_vars(NextClimb)

----------------------------------------------------------------------------
(* The InboxStore on its own, under any sequence of calls *)

InitStore ==
    /\ mailbox = EmptyMailboxes
    /\ ReplyIdle
    /\ inboxRows \in {<<>>, <<InitA2>>, <<InitInbox("a1", 1, 4, "active", AllDay), InitA2>>}
    /\ recipientRows = <<>>
    /\ logRows = <<>>
    /\ uiQueue = <<>>
    /\ now = StartTime
    /\ wPc = "idle"
    /\ wActive = <<>>
    /\ wIdx = 1
    /\ wRecipient = ""
    /\ wResult = ""
    /\ wSends = <<>>
    /\ wProcessed = <<>>
    /\ wStore0 = <<>>
    /\ wRcpt0 = <<>>
    /\ wLog0 = 0
    /\ wQ0 = 0
    /\ wForeign = FALSE
    /\ wRaised = {}
    /\ expectedSent = [e \in InboxEmails |-> 0]
    /\ nCycles = 0
    /\ nEnv = 0
    /\ SchedInit
    /\ StoreIdle
    /\ call = NoCall
    /\ logDown = FALSE
    /\ smtpResults = SendResults
    /\ rng = "any"

NextStore ==
    \/ \E e \in InboxEmails : store_add(e)
    \/ \E e \in InboxEmails : store_update(e)
    \/ \E e \in InboxEmails : store_delete(e)
    \/ \E e \in InboxEmails : store_pause(e)
    \/ \E e \in InboxEmails : store_resume(e)
    \/ \E e \in InboxEmails : store_mark_error(e)
    \/ \E e \in InboxEmails : store_update_stage(e)
    \/ store_reset_daily_counts

SpecStore == InitStore /\ [][NextStore]_vars

----------------------------------------------------------------------------
(* The scheduler on its own: the jobs' bodies are opaque executions *)

EngineIdle ==
    /\ inboxRows = <<>>
    /\ recipientRows = <<>>
    /\ logRows = <<>>
    /\ wPc = "idle"
    /\ wActive = <<>>
    /\ wIdx = 1
    /\ wRecipient = ""
    /\ wResult = ""
    /\ wSends = <<>>
    /\ wProcessed = <<>>
    /\ wStore0 = <<>>
    /\ wRcpt0 = <<>>
    /\ wLog0 = 0
    /\ wQ0 = 0
    /\ wForeign = FALSE
    /\ wRaised = {}
    /\ expectedSent = [e \in InboxEmails |-> 0]
    /\ nCycles = 0
    /\ nEnv = 0

\* one minute before midnight, so that the daily reset comes due
SchedStartTime == Day - 60

InitSched ==
    /\ mailbox = EmptyMailboxes
    /\ ReplyIdle
    /\ EngineIdle
    /\ uiQueue = <<>>
    /\ now = SchedStartTime
    /\ SchedInit
    /\ StoreIdle
    /\ call = NoCall
    /\ logDown = FALSE
    /\ smtpResults = SendResults
    /\ rng = "any"

NextSched ==
    \/ start
    \/ stop
    \/ resume_scheduler
    \/ shutdown
    \/ \E j \in Jobs : process_job(j)
    \/ \E j \in Jobs, raised \in BOOLEAN : job_done(j, raised)
    \/ SchedTick

SpecSched == InitSched /\ [][NextSched]_vars

----------------------------------------------------------------------------
(* The functions of ramp_logic on their own, called with any arguments *)

\* an inbox at the stage, as stored
StoredAtStage(stage) ==
    InboxRecord("a1", "conn", stage, 3, 15, "active", Never, "", <<8, 0>>, <<20, 0>>, "name")

\* reset_daily_counts on a file holding an inbox at the stage: the limit written
call_reset_daily_counts ==
    /\ IsPending("reset_daily_counts")
    /\ Returns(reset_daily_counts(<<StoredAtStage(call.args[1])>>)[1].daily_limit)
    /\ CallFrame

\* update_stage of an inbox to the stage: the limit written
call_update_stage ==
    /\ IsPending("update_stage")
    /\ Returns(update_stage(<<StoredAtStage(2)>>, "a1", call.args[1])[1].daily_limit)
    /\ CallFrame

\* the calls of the model: each function with the arguments it is given
RampCalls ==
    {Pending(fn, <<stage>>) :
        fn \in {"get_daily_limit", "reset_daily_counts", "update_stage"},
        stage \in StageValues} \cup
    {Pending("within_working_hours", <<s, e, t>>) :
        s \in WorkTimes, e \in WorkTimes, t \in ClockTimes} \cup
    {Pending("check_bounce_threshold", <<sent, bounced, threshold>>) :
        sent \in SentCounts, bounced \in BouncedCounts, threshold \in Thresholds}

InitRamp ==
    /\ mailbox = EmptyMailboxes
    /\ ReplyIdle
    /\ EngineIdle
    /\ uiQueue = <<>>
    /\ now = StartTime
    /\ SchedInit
    /\ StoreIdle
    /\ call \in RampCalls
    /\ logDown = FALSE
    /\ smtpResults = SendResults
    /\ rng = "any"

NextRamp ==
    \/ call_within_working_hours
    \/ call_check_bounce_threshold
    \/ call_get_daily_limit
    \/ call_reset_daily_counts
    \/ call_update_stage

SpecRamp == InitRamp /\ [][NextRamp]_vars

----------------------------------------------------------------------------
(* Properties of the WarmupCycle, checked under Spec *)

\* the rows of the running invocation's load that were active, in file order
LoadedActive == SelectSeq(wStore0, LAMBDA r : r.status = "active")

LoadedEmails == [i \in DOMAIN LoadedActive |-> LoadedActive[i].email]

\* the sends of this invocation whose handler has run
FinishedSends ==
    {k \in DOMAIN wSends : ~(wPc = "sent" /\ k = Len(wSends))}

SendsFrom(email) == {k \in DOMAIN wSends : wSends[k].from = email}

\* log rows appended, and events put, since this invocation started
NewRows(email, event_type) ==
    {k \in DOMAIN logRows :
        /\ k > wLog0
        /\ logRows[k].inbox_email = email
        /\ logRows[k].event_type = event_type}

NewEvents(email, type) ==
    {k \in DOMAIN uiQueue :
        k > wQ0 /\ uiQueue[k].inbox = email /\ uiQueue[k].type = type}

\* C1: an inbox whose daily_sent is not below its daily_limit when the cycle
\* loads it gets no transport send in that invocation: every send of the
\* invocation is from an inbox that was below its limit at the load.
C1_QuotaGate ==
    \A k \in DOMAIN wSends :
        LET r == find(wStore0, wSends[k].from)
        IN  r.daily_sent < r.daily_limit

\* an invocation is over that processed an active inbox at its limit whose
\* window is open all day, that was never sent from, with a recipient at hand
C1_Witness ==
    /\ wPc = "done"
    /\ \E i \in DOMAIN wStore0 :
        /\ wStore0[i].status = "active"
        /\ wStore0[i].daily_sent >= wStore0[i].daily_limit
        /\ <<wStore0[i].working_hours_start, wStore0[i].working_hours_end>> = AllDay
        /\ wStore0[i].last_sent_at = Never
        /\ \E j \in DOMAIN wRcpt0 : wRcpt0[j].active
        /\ \E k \in DOMAIN wProcessed : wProcessed[k] = wStore0[i].email
        /\ SendsFrom(wStore0[i].email) = {}

\* C2: one invocation processes the inboxes that were active at its load, each
\* once and in file order, and attempts at most one send for each.
C2_EachActiveOnce ==
    /\ Len(wProcessed) <= Len(LoadedEmails)
    /\ \A k \in DOMAIN wProcessed : wProcessed[k] = LoadedEmails[k]
    /\ wPc = "done" => wProcessed = LoadedEmails
    /\ \A e \in InboxEmails : Cardinality(SendsFrom(e)) <= 1

\* an invocation is over that processed two inboxes and sent from both
C2_Witness ==
    /\ wPc = "done"
    /\ Len(wProcessed) = 2
    /\ Len(wSends) = 2

\* the store of the end-to-end case: one active inbox, at stage 1 with limit 5,
\* nothing sent today, never sent from, window 00:00-23:59; one active
\* recipient, never used
C3_Case ==
    /\ Len(LoadedActive) = 1
    /\ LoadedActive[1].stage = 1
    /\ LoadedActive[1].daily_limit = 5
    /\ LoadedActive[1].daily_sent = 0
    /\ LoadedActive[1].last_sent_at = Never
    /\ <<LoadedActive[1].working_hours_start,
         LoadedActive[1].working_hours_end>> = <<<<0, 0>>, <<23, 59>>>>
    /\ Cardinality({j \in DOMAIN wRcpt0 : wRcpt0[j].active}) = 1
    /\ \A j \in DOMAIN wRcpt0 :
        wRcpt0[j].active => wRcpt0[j].count_used = 0 /\ wRcpt0[j].last_used = Never

C3_A == LoadedActive[1].email

C3_R == wRcpt0[CHOOSE j \in DOMAIN wRcpt0 : wRcpt0[j].active].email

\* C3: end to end.  In the case above, an invocation that no other writer
\* interleaves with and whose send succeeds makes exactly one send, to R;
\* afterwards A's daily_sent is 1, R's count_used is 1, one SEND row has been
\* appended and one send event has been put.
C3_EndToEnd ==
    (/\ wPc = "done"
     /\ C3_Case
     /\ ~wForeign
     /\ wRaised = {}
     /\ \A k \in DOMAIN wSends : wSends[k].result = "success")
    =>  /\ Len(wSends) = 1
        /\ wSends[1].from = C3_A
        /\ wSends[1].to = C3_R
        /\ find(inboxRows, C3_A).daily_sent = 1
        /\ find(recipientRows, C3_R).count_used = 1
        /\ Cardinality({k \in DOMAIN logRows :
                k > wLog0 /\ logRows[k].event_type = "SEND"}) = 1
        /\ Cardinality(NewRows(C3_A, "SEND")) = 1
        /\ \A k \in NewRows(C3_A, "SEND") : logRows[k].recipient = C3_R
        /\ Cardinality({k \in DOMAIN uiQueue :
                k > wQ0 /\ uiQueue[k].type = "send"}) = 1
        /\ Cardinality(NewEvents(C3_A, "send")) = 1

\* the end-to-end case has run, with a successful send
C3_Witness ==
    /\ wPc = "done"
    /\ C3_Case
    /\ ~wForeign
    /\ Len(wSends) = 1
    /\ wSends[1].result = "success"

\* the finished successful send from this inbox, if any, reached the limit
\* its inbox had at the load, at a stage below 4
C4_Promoting(email) ==
    \E k \in FinishedSends :
        /\ wSends[k].from = email
        /\ wSends[k].result = "success"
        /\ find(wStore0, email).daily_sent + 1 >= find(wStore0, email).daily_limit
        /\ find(wStore0, email).stage < 4

C4_Rows ==
    \A e \in InboxEmails :
        /\ Cardinality(NewRows(e, "STAGE")) = IF C4_Promoting(e) THEN 1 ELSE 0
        /\ Cardinality(NewEvents(e, "stage_advance")) =
                IF C4_Promoting(e) THEN 1 ELSE 0

\* the step that handles a successful, promoting send writes the next stage
\* and that stage's limit
C4_Persist ==
    (/\ wPc = "sent"
     /\ wPc' = "loop"
     /\ wResult = "success"
     /\ Inbox.daily_sent + 1 >= Inbox.daily_limit
     /\ Inbox.stage < 4
     /\ RowIndex(inboxRows, Inbox.email) # 0)
    =>  /\ find(inboxRows', Inbox.email).stage = Inbox.stage + 1
        /\ find(inboxRows', Inbox.email).daily_limit = STAGE_LIMITS[Inbox.stage + 1]

\* C4: a successful send that brings daily_sent up to the daily limit at a
\* stage below 4 promotes in the same cycle: the record written has the next
\* stage and its limit, and one STAGE row and one stage_advance event are
\* produced; any other send produces no STAGE row and no stage_advance event.
C4_PromotionInCycle == []C4_Rows /\ [][C4_Persist]_vars

\* a promoting send has been handled and the store holds the next stage
C4_Witness ==
    /\ wPc = "done"
    /\ \E e \in InboxEmails :
        /\ C4_Promoting(e)
        /\ find(inboxRows, e).stage = find(wStore0, e).stage + 1
        /\ Cardinality(NewRows(e, "STAGE")) = 1

\* the stored row of every inbox of the file
StoredRow(rows, email) == find(rows, email)

\* C5: account mutations are atomic read-modify-writes with respect to
\* concurrent jobs: when the daily reset runs between a cycle's load of an
\* inbox and the cycle's write after the send, no update is lost, so the
\* stored daily_sent is always the number of sends counted since the last
\* reset.
C5_NoLostUpdate ==
    \A e \in StoredEmails : StoredRow(inboxRows, e).daily_sent = expectedSent[e]

\* C6: no write by a cycle or by the daily reset lowers a stored stage: the
\* stage of an inbox goes down only in a step of the manual stage edit.
C6_StageNeverLoweredByJobs ==
    [][\A e \in StoredEmails :
          (/\ RowIndex(inboxRows', e) # 0
           /\ StoredRow(inboxRows', e).stage < StoredRow(inboxRows, e).stage)
          => \E s \in EditStages : edit_stage_save(e, s)]_vars

\* C7: an inbox that is paused or in error becomes active again only by the
\* manual resume: no write by a cycle or by the daily reset sets the status
\* to active, also when the pause lands while a cycle holds a snapshot of the
\* inbox and then completes a successful send.
C7_ActiveOnlyByResume ==
    [][\A e \in StoredEmails :
          (/\ RowIndex(inboxRows', e) # 0
           /\ StoredRow(inboxRows, e).status # "active"
           /\ StoredRow(inboxRows', e).status = "active")
          => on_pause_inbox(e)]_vars

----------------------------------------------------------------------------
(* Properties of the scheduler, checked under SpecSched *)

C8_AtMostOne == \A j \in Jobs : instances[j] <= 1

\* a firing processed while an execution of its job is in progress starts
\* nothing and is dropped: the job is no longer due afterwards; an execution
\* starts only for a due job with no execution in progress
C8_Skipped ==
    \A j \in Jobs :
        /\ (process_job(j) /\ instances[j] >= 1)
            => /\ instances'[j] = instances[j]
               /\ lastFire'[j] = "skipped"
               /\ jobNext'[j] > now
        /\ instances'[j] > instances[j] => (instances[j] = 0 /\ Due(j))

\* C8: each scheduled job has at most one execution in progress at any time;
\* a firing that comes due while the previous execution of the same job is
\* still running is skipped, not queued; executions of different jobs may
\* overlap.
C8_OneInstancePerJob == []C8_AtMostOne /\ [][C8_Skipped]_vars

\* a firing of the warm-up job has been skipped while its execution and one
\* of the reply job are in progress
C8_Witness ==
    /\ lastFire[JOB_WARMUP] = "skipped"
    /\ instances[JOB_WARMUP] = 1
    /\ instances[JOB_REPLY] = 1

\* C9: shutdown is terminal: after shutdown() no start() or resume() brings
\* the scheduler back to running (is_running() stays false), and no
\* execution of a job starts again.
C9_ShutdownTerminal ==
    /\ [](wasShutDown => ~running)
    /\ [][wasShutDown => \A j \in Jobs : instances'[j] <= instances[j]]_vars

C10_Step ==
    (/\ nCalls' = nCalls + 1
     /\ \/ lastCall'.op = "start" /\ running
        \/ lastCall'.op = "stop" /\ ~running)
    => UNCHANGED <<running, schedState, poolShut, jobNext, instances, uiQueue>>

\* C10: start() on a running scheduler and stop() on a stopped one are
\* no-ops: the lifecycle state, the registered jobs and their next firing
\* times are unchanged and no status event is put.
C10_NoOps == [][C10_Step]_vars

\* start() has been called on a running scheduler whose warm-up job would
\* have got another firing time from a registration now
C10_Witness ==
    /\ lastCall = [op |-> "start", was_running |-> TRUE]
    /\ running
    /\ jobNext[JOB_WARMUP] # Never
    /\ jobNext[JOB_WARMUP] # FirstFire(JOB_WARMUP, now)

\* C11: a stop() followed by start() does not push back the pending next
\* firing time of any job: the schedule kept over the stop is the one that
\* start() resumes.
C11_StopStartKeepsSchedule ==
    [][(/\ nCalls' = nCalls + 1
        /\ lastCall'.op = "start"
        /\ lastCall.op = "stop"
        /\ schedState = "paused")
       => \A j \in Jobs : jobNext'[j] <= jobNext[j]]_vars

C12_Step ==
    /\ ~running => \A j \in Jobs : instances'[j] <= instances[j]
    /\ (nCalls' = nCalls + 1 /\ lastCall'.op = "stop") => instances' = instances

\* C12: stop() only suppresses future firings: it ends no execution in
\* progress, an execution in progress can always run to its end, and no
\* execution of any job begins while the scheduler is stopped.
C12_StopSuppressesOnlyFuture ==
    /\ [](\A j \in Jobs : instances[j] > 0 => ENABLED job_done(j, FALSE))
    /\ [][C12_Step]_vars

\* stop() was called while the warm-up job was executing; the execution is
\* still in progress and the job's next firing has come due, unprocessed
C12_Witness ==
    /\ lastCall = [op |-> "stop", was_running |-> TRUE]
    /\ ~running
    /\ instances[JOB_WARMUP] = 1
    /\ Due(JOB_WARMUP)

\* C13: an exception that escapes an execution of a job is reported as one
\* error event; the job stays registered with its next firing time and the
\* scheduler goes on, and the other jobs' executions are not touched.
C13_JobFailureIsolated ==
    [][\A j \in Jobs :
          job_done(j, TRUE)
          => /\ uiQueue' = Append(uiQueue, [type |-> "error", inbox |-> "system"])
             /\ UNCHANGED <<jobNext, schedState, running, poolShut>>
             /\ \A k \in Jobs \ {j} : instances'[k] = instances[k]]_vars

\* an execution of the warm-up job has raised, and a later firing of the job
\* is executing; no other job has fired
C13_Witness ==
    /\ \E k \in DOMAIN uiQueue : uiQueue[k].type = "error"
    /\ instances[JOB_WARMUP] = 1
    /\ lastFire[JOB_WARMUP] = "run"
    /\ lastFire[JOB_REPLY] = "none"
    /\ lastFire[JOB_RESET] = "none"

----------------------------------------------------------------------------
(* Properties of the two cycles, checked under SpecCycles *)

ReplyLoadedEmails == [i \in DOMAIN rActive |-> rActive[i].email]

IsPrefix(p, q) == Len(p) <= Len(q) /\ \A k \in DOMAIN p : p[k] = q[k]

\* every inbox of the list loaded is processed, whatever raised on the way;
\* an invocation whose load failed processes nothing and goes no further
C14_Processed ==
    /\ IsPrefix(wProcessed, LoadedEmails)
    /\ wPc = "done" => wProcessed = LoadedEmails
    /\ IsPrefix(rProcessed, ReplyLoadedEmails)
    /\ rPc = "done" => rProcessed = ReplyLoadedEmails
    /\ wPc = "aborted" =>
        /\ wProcessed = <<>> /\ wSends = <<>>
        /\ ~ENABLED process_inbox /\ ~ENABLED process_inbox_raises
        /\ ~ENABLED finish_send
    /\ rPc = "aborted" =>
        /\ rProcessed = <<>> /\ rReplies = <<>>
        /\ ~ENABLED process_inbox_replies /\ ~ENABLED reply_message

\* the step in which a load fails writes no store and puts no event
C14_AbortStep ==
    /\ (nCycles' # nCycles /\ wPc' = "aborted")
        => UNCHANGED <<inboxRows, recipientRows, logRows, uiQueue>>
    /\ (nReplyCycles' # nReplyCycles /\ rPc' = "aborted")
        => UNCHANGED <<inboxRows, recipientRows, logRows, uiQueue, mailbox>>

\* C14: failures are isolated per inbox inside a cycle: an exception raised
\* while a WarmupCycle or a ReplyCycle processes one inbox is caught and every
\* remaining inbox of the list loaded is still processed, whereas a failure
\* of the load itself ends the invocation with no send and no store write.
C14_FailureIsolation == []C14_Processed /\ [][C14_AbortStep]_vars

\* both cycles have ended; in each the processing of a1 raised and a2, next
\* in the list, was still processed: a send from it, a reply from it
C14_Witness ==
    /\ wPc = "done"
    /\ "a1" \in wRaised
    /\ \E k \in DOMAIN wSends : wSends[k].from = "a2"
    /\ rPc = "done"
    /\ "a1" \in rRaised
    /\ \E k \in DOMAIN rReplies : rReplies[k].from = "a2"

----------------------------------------------------------------------------
(* Properties of the failure handling, checked under Spec *)

\* the step of _process_inbox that handles the result of the send in flight
HandlerStep(result) == wPc = "sent" /\ wPc' = "loop" /\ wResult = result

IsStored(rows, email) == RowIndex(rows, email) # 0

\* the handler of an authentication failure: status error with a reason, one
\* ERROR row, one error event, and nothing of the bounce accounting
C15_Handler ==
    HandlerStep("auth") =>
        /\ IsStored(inboxRows, Inbox.email) =>
            /\ StoredRow(inboxRows', Inbox.email).status = "error"
            /\ StoredRow(inboxRows', Inbox.email).paused_reason # ""
        /\ logRows' = Append(logRows, LogRecord(now, Inbox.email, "ERROR", ""))
        /\ uiQueue' = Append(uiQueue, [type |-> "error", inbox |-> Inbox.email])
        /\ StoredRow(recipientRows', wRecipient).active
            = StoredRow(recipientRows, wRecipient).active

\* an inbox in error leaves that status only by the dashboard's button
C15_ErrorKept ==
    \A e \in StoredEmails :
        (/\ StoredRow(inboxRows, e).status = "error"
         /\ IsStored(inboxRows', e)
         /\ StoredRow(inboxRows', e).status # "error")
        => on_pause_inbox(e)

\* a cycle processes no inbox that was in error when it loaded the store
C15_Skipped ==
    \A k \in DOMAIN wProcessed :
        StoredRow(wStore0, wProcessed[k]).status # "error"

\* C15: a send that fails with an authentication failure sets the inbox's
\* status to error with a reason, appends one ERROR row and puts one error
\* event, with no bounce accounting (no BOUNCE row, the recipient stays
\* active, the inbox is not paused); the inbox is then skipped by every cycle
\* that starts afterwards, until the manual resume.
C15_AuthFailure == []C15_Skipped /\ [][C15_Handler /\ C15_ErrorKept]_vars

\* a cycle has ended in which the send from a1 failed on authentication: a1
\* is in error and the recipient of that send is still active
C15_Witness ==
    /\ wPc = "done"
    /\ \E k \in DOMAIN wSends :
        /\ wSends[k].from = "a1"
        /\ wSends[k].result = "auth"
        /\ StoredRow(recipientRows, wSends[k].to).active
    /\ IsStored(inboxRows, "a1")
    /\ StoredRow(inboxRows, "a1").status = "error"

\* BOUNCE or SEND rows of an inbox in the day that ends at t, the rows of the
\* day's first second counted when atCutoff
C16_Count(rows, email, event_type, t, atCutoff) ==
    Cardinality({i \in DOMAIN rows :
        /\ rows[i].inbox_email = email
        /\ rows[i].event_type = event_type
        /\ \/ rows[i].timestamp > t - 24 * 3600
           \/ atCutoff /\ rows[i].timestamp = t - 24 * 3600})

\* the bounce rate of the inbox over the trailing 24 hours is above 5 %
C16_Exceeded(rows, email, t, atCutoff) ==
    /\ C16_Count(rows, email, "SEND", t, atCutoff) > 0
    /\ 100 * C16_Count(rows, email, "BOUNCE", t, atCutoff)
        > 5 * C16_Count(rows, email, "SEND", t, atCutoff)

C16_Paused ==
    /\ IsStored(inboxRows, Inbox.email) =>
        /\ StoredRow(inboxRows', Inbox.email).status = "paused"
        /\ StoredRow(inboxRows', Inbox.email).paused_reason # ""
    /\ logRows' = Append(Append(logRows,
                    LogRecord(now, Inbox.email, "BOUNCE", wRecipient)),
                    LogRecord(now, Inbox.email, "PAUSE", ""))
    /\ uiQueue' = Append(uiQueue, [type |-> "pause", inbox |-> Inbox.email])

C16_NotPaused ==
    /\ inboxRows' = inboxRows
    /\ logRows' = Append(logRows, LogRecord(now, Inbox.email, "BOUNCE", wRecipient))
    /\ uiQueue' = Append(uiQueue, [type |-> "bounce", inbox |-> Inbox.email])

\* C16: on a hard bounce one BOUNCE row is appended, and the inbox is paused
\* (status paused with a reason, one PAUSE row, one pause event) exactly when
\* its BOUNCE rows over its SEND rows of the trailing 24 hours, the new
\* bounce included, are strictly above the threshold; otherwise its record is
\* unchanged and only a bounce event is put.  A row of the very second the
\* window begins may count or not.
C16_HardBounce ==
    [][HandlerStep("hard") =>
        \/ /\ C16_Paused
           /\ \E c \in BOOLEAN : C16_Exceeded(logRows', Inbox.email, now, c)
        \/ /\ C16_NotPaused
           /\ \E c \in BOOLEAN : ~C16_Exceeded(logRows', Inbox.email, now, c)]_vars

\* a cycle has ended in which a send from a1 bounced hard and a1 was paused
\* for its bounce rate: the last rows of the log are its BOUNCE and PAUSE
C16_Witness ==
    /\ wPc = "done"
    /\ \E k \in DOMAIN wSends : wSends[k].from = "a1" /\ wSends[k].result = "hard"
    /\ IsStored(inboxRows, "a1")
    /\ StoredRow(inboxRows, "a1").status = "paused"
    /\ Len(logRows) >= 3
    /\ logRows[Len(logRows)].event_type = "PAUSE"
    /\ logRows[Len(logRows) - 1].event_type = "BOUNCE"
    /\ C16_Count(logRows, "a1", "SEND", now, FALSE) > 0

RecipientEmails == {recipientRows[i].email : i \in DOMAIN recipientRows}

\* the step of _process_inbox that picks a recipient and makes the send
SendStep == wPc = "loop" /\ wPc' = "sent"

C17_Step ==
    /\ HandlerStep("hard") => ~StoredRow(recipientRows', wRecipient).active
    /\ \A r \in RecipientEmails :
        ~StoredRow(recipientRows, r).active
        => IsStored(recipientRows', r) /\ ~StoredRow(recipientRows', r).active
    /\ SendStep => StoredRow(recipientRows, wRecipient').active

\* C17: after a hard bounce against a recipient, the recipient is inactive
\* and stays inactive under every later step of the cycles and of the daily
\* reset, and no later least-used lookup returns it.
C17_BouncedRecipientOut == [][C17_Step]_vars

\* a cycle has ended in which the send to one recipient bounced hard and a
\* later send went to another, although the bounced one, now inactive, had
\* the lower usage count when that send was made
C17_Witness ==
    /\ wPc = "done"
    /\ \E k, m \in DOMAIN wSends :
        /\ k < m
        /\ wSends[k].result = "hard"
        /\ wSends[m].to # wSends[k].to
        /\ ~StoredRow(recipientRows, wSends[k].to).active
        /\ StoredRow(recipientRows, wSends[k].to).count_used + 1
            < StoredRow(recipientRows, wSends[m].to).count_used

\* the usage count of a recipient, in a recipients.csv that holds it
C18_Used(rows, r) == StoredRow(rows, r).count_used

\* C18: every transport attempt of the WarmupCycle adds exactly one to the
\* usage count of the recipient chosen, whatever the result of the send
\* (success, authentication failure, hard bounce, soft bounce, other), and
\* no other step changes a usage count: a count never goes down.
C18_UsageCounted ==
    [][\A r \in RecipientEmails :
          /\ IsStored(recipientRows', r)
          /\ C18_Used(recipientRows', r) =
                IF wPc = "sent" /\ wPc' = "loop" /\ r = wRecipient
                THEN C18_Used(recipientRows, r) + 1
                ELSE C18_Used(recipientRows, r)]_vars

\* a cycle has ended whose two sends failed, one on authentication and one as
\* a soft bounce, and every recipient's count has grown by the number of
\* sends made to it
C18_Witness ==
    /\ wPc = "done"
    /\ Len(wSends) = 2
    /\ wSends[1].result = "auth"
    /\ wSends[2].result = "soft"
    /\ \A r \in RecipientEmails :
        C18_Used(recipientRows, r) =
            C18_Used(wRcpt0, r) + Cardinality({k \in DOMAIN wSends : wSends[k].to = r})

\* the active rows of recipients.csv, and those a sender may be given: the
\* ones with another address, or all of them when there is no such row
C19_Active == {recipientRows[i] : i \in {j \in DOMAIN recipientRows : recipientRows[j].active}}

C19_Pool(sender) ==
    IF \E r \in C19_Active : r.email # sender
    THEN {r \in C19_Active : r.email # sender}
    ELSE C19_Active

\* r is used no more than q, and at equal use was last used no later than q
\* (a recipient never used counts as used before any time)
C19_NotAfter(r, q) ==
    \/ r.count_used < q.count_used
    \/ r.count_used = q.count_used /\ r.last_used = Never
    \/ r.count_used = q.count_used /\ q.last_used # Never /\ r.last_used <= q.last_used

\* a step of _process_inbox that ends without a send and without an exception
C19_SkipStep ==
    /\ wPc = "loop"
    /\ wPc' = "loop"
    /\ wIdx <= Len(wActive)
    /\ wProcessed' = Append(wProcessed, Inbox.email)
    /\ wRaised' = wRaised

C19_Warning == Append(uiQueue, [type |-> "warning", inbox |-> Inbox.email])

C19_Step ==
    /\ SendStep =>
        /\ \E r \in C19_Pool(Inbox.email) :
            /\ r.email = wRecipient'
            /\ \A q \in C19_Pool(Inbox.email) : C19_NotAfter(r, q)
    /\ C19_SkipStep =>
        /\ wSends' = wSends
        /\ C19_Active # {} => uiQueue' = uiQueue
        /\ C19_Active = {} => uiQueue' \in {uiQueue, C19_Warning}
        /\ (/\ C19_Active = {}
            /\ \A delay \in get_send_delay_seconds(Inbox.stage) :
                    gates_pass(Inbox, delay, now))
           => uiQueue' = C19_Warning

\* C19: the recipient chosen for a sending account is an active recipient of
\* least usage count among the active recipients with another address than
\* the account's, ties going to the earliest last-used time with never-used
\* first; when no other address is left the choice is made over all active
\* recipients; when there is no active recipient at all the account is
\* skipped with one warning event and no send.
C19_LeastUsedChoice == [][C19_Step]_vars

\* a cycle has ended in which an inbox, itself the least used active
\* recipient, sent to another recipient that was used more
C19_Witness ==
    /\ wPc = "done"
    /\ \E k \in DOMAIN wSends :
        /\ wSends[k].to # wSends[k].from
        /\ IsStored(wRcpt0, wSends[k].from)
        /\ StoredRow(wRcpt0, wSends[k].from).active
        /\ StoredRow(wRcpt0, wSends[k].from).count_used
            < StoredRow(wRcpt0, wSends[k].to).count_used

\* what the reset does to the stored row at index i
C20_Row(i) ==
    /\ inboxRows'[i].email = inboxRows[i].email
    /\ inboxRows'[i].daily_sent = 0
    /\ inboxRows'[i].daily_limit = get_daily_limit(inboxRows[i].stage)
    /\ inboxRows'[i].stage = inboxRows[i].stage
    /\ inboxRows'[i].status = inboxRows[i].status
    /\ inboxRows'[i].paused_reason = inboxRows[i].paused_reason
    /\ inboxRows'[i].last_sent_at = inboxRows[i].last_sent_at

\* C20: the daily reset sets daily_sent to 0 and daily_limit to the limit of
\* the current stage for every stored inbox, whatever its status (active,
\* paused or error), and leaves each inbox's stage, status, pause reason and
\* last-sent timestamp as they were.
C20_DailyReset ==
    [][daily_reset =>
          /\ Len(inboxRows') = Len(inboxRows)
          /\ \A i \in DOMAIN inboxRows : C20_Row(i)]_vars

\* a cycle has ended and the reset has run after it: the inbox whose send
\* failed on authentication is in error with nothing counted as sent today,
\* and the inbox promoted to stage 3 by its send has the limit of stage 3
C20_Witness ==
    /\ wPc = "done"
    /\ IsStored(inboxRows, "a1")
    /\ IsStored(inboxRows, "a2")
    /\ StoredRow(wStore0, "a1").daily_sent = 4
    /\ StoredRow(inboxRows, "a1").status = "error"
    /\ StoredRow(inboxRows, "a1").daily_sent = 0
    /\ StoredRow(wStore0, "a2").daily_limit = 15
    /\ StoredRow(inboxRows, "a2").stage = 3
    /\ StoredRow(inboxRows, "a2").daily_limit = 25
    /\ StoredRow(inboxRows, "a2").daily_sent = 0
    /\ StoredRow(inboxRows, "a2").last_sent_at # Never

\* a step of the ReplyCycle: one that changes the cycle's own state
C21_ReplyStep == replyVars' # replyVars

\* the reply attempted by this step, when the step attempts one
C21_Attempt == rReplies'[Len(rReplies')]

\* this step attempted a reply
C21_Replied == rPc = "replying" /\ rReplies' # rReplies

C21_Step ==
    C21_ReplyStep =>
        /\ inboxRows' = inboxRows
        /\ recipientRows' = recipientRows
        /\ IF ~C21_Replied
           THEN logRows' = logRows
           ELSE /\ Len(rReplies') = Len(rReplies) + 1
                /\ Len(logRows') = Len(logRows) + 1
                /\ SubSeq(logRows', 1, Len(logRows)) = logRows
                /\ logRows'[Len(logRows')].inbox_email = C21_Attempt.from
                /\ logRows'[Len(logRows')].event_type =
                      IF C21_Attempt.result = "success" THEN "REPLY" ELSE "ERROR"

\* C21: a ReplyCycle invocation, whatever the results of its reply sends,
\* changes no inbox record and no recipient record and appends no SEND or
\* BOUNCE row; each reply attempt appends exactly one row, REPLY when the send
\* succeeded and ERROR when it failed.
C21_ReplyFrame == [][C21_Step]_vars

\* a ReplyCycle has ended that sent one reply and failed with another on a
\* hard bounce, and logs.csv holds a REPLY row and an ERROR row and no
\* BOUNCE row
C21_Witness ==
    /\ rPc = "done"
    /\ \E k, m \in DOMAIN rReplies :
        rReplies[k].result = "success" /\ rReplies[m].result = "hard"
    /\ \E i, j \in DOMAIN logRows :
        logRows[i].event_type = "REPLY" /\ logRows[j].event_type = "ERROR"
    /\ \A i \in DOMAIN logRows : logRows[i].event_type # "BOUNCE"

\* c and d are the same character up to the case of a letter
C22_SameLetter(c, d) ==
    c = d \/ \E k \in DOMAIN UpperCase : {c, d} = {UpperCase[k], LowerCase[k]}

\* the subject contains a denylist term, whatever the case of its letters
C22_Denied(subject) ==
    \E kw \in SYSTEM_TERMS : \E i \in 0..(Len(subject) - Len(kw)) :
        \A j \in 1..Len(kw) : C22_SameLetter(subject[i + j], kw[j])

\* C22: a fetched message whose subject contains a denylist term
\* (unsubscribe, no-reply, noreply, bounce, auto-reply, out of office,
\* vacation, delivery failure), in any case of its letters, is never replied
\* to, whatever the reply rate, 1.0 included: no step attempts a reply to
\* such a message.
C22_DenylistNeverReplied ==
    [][C21_Replied =>
          /\ rMsgs # <<>>
          /\ C21_Attempt.uid = Head(rMsgs).uid
          /\ ~C22_Denied(Head(rMsgs).subject)]_vars

\* a ReplyCycle has ended that fetched "Out Of Office" and "Hello there" from
\* one mailbox and replied to the second only
C22_Witness ==
    /\ rPc = "done"
    /\ \E e \in InboxEmails :
        /\ Len(mailbox[e]) = 2
        /\ mailbox[e][1].seen /\ mailbox[e][2].seen
        /\ mailbox[e][1].subject = SubjOutOfOffice
        /\ C22_Denied(mailbox[e][1].subject)
        /\ ~C22_Denied(mailbox[e][2].subject)
        /\ \E k \in DOMAIN rReplies : rReplies[k].from = e /\ rReplies[k].uid = 2
        /\ \A k \in DOMAIN rReplies : rReplies[k].from = e => rReplies[k].uid # 1

\* a step in which fetch_unseen returns to _process_inbox_replies
C23_FetchStep ==
    /\ rPc = "loop"
    /\ rIdx <= Len(rActive)
    /\ rProcessed' # rProcessed
    /\ rRaised' = rRaised

\* the messages of a mailbox that the step marked seen
C23_MarkedSeen(e) ==
    {mailbox[e][i].uid : i \in {j \in DOMAIN mailbox[e] :
                                   ~mailbox[e][j].seen /\ mailbox'[e][j].seen}}

C23_Returned == {rMsgs'[i].uid : i \in DOMAIN rMsgs'}

C23_Step ==
    /\ C23_FetchStep =>
        /\ \A i \in DOMAIN mailbox[ReplyInbox.email] :
            LET m == mailbox[ReplyInbox.email][i]
            IN  m.uid \in C23_Returned
                => ~m.seen /\ mailbox'[ReplyInbox.email][i].seen
        /\ C23_MarkedSeen(ReplyInbox.email) \subseteq C23_Returned
    /\ \A k, m \in DOMAIN rReplies' :
        (rReplies'[k].from = rReplies'[m].from /\ rReplies'[k].uid = rReplies'[m].uid)
        => k = m

\* C23: each inbound message is returned by fetch_unseen at most once (a
\* message returned was unseen and is seen afterwards), so it gets at most
\* one reply; and a message that a fetch has marked seen is among the
\* messages that fetch returned.
C23_FetchedOnce == [][C23_Step]_vars

C24_Full == Len(uiQueue) >= QUEUE_MAXSIZE

\* the kind of row the handler of a send logs for the send's result
C24_RowOf(result) ==
    CASE result = "success" -> "SEND"
      [] result = "hard" -> "BOUNCE"
      [] OTHER -> "ERROR"

\* this step appended a row of the kind to logs.csv, for the inbox
C24_Logged(email, kind) ==
    \E k \in (Len(logRows) + 1)..Len(logRows') :
        logRows'[k].inbox_email = email /\ logRows'[k].event_type = kind

C24_Step ==
    /\ Len(uiQueue') <= QUEUE_MAXSIZE
    /\ Len(uiQueue') >= Len(uiQueue)
    /\ SubSeq(uiQueue', 1, Len(uiQueue)) = uiQueue
    /\ C24_Full => uiQueue' = uiQueue
    /\ (C24_Full /\ wPc = "sent" /\ wPc' = "loop") =>
        /\ IsStored(inboxRows, Inbox.email) => C24_Logged(Inbox.email, C24_RowOf(wResult))
        /\ StoredRow(recipientRows', wRecipient).count_used
            = StoredRow(recipientRows, wRecipient).count_used + 1
        /\ (wResult = "success" /\ IsStored(inboxRows, Inbox.email)) =>
            StoredRow(inboxRows', Inbox.email).daily_sent = Inbox.daily_sent + 1
    /\ (C24_Full /\ C21_Replied) =>
        C24_Logged(C21_Attempt.from, IF C21_Attempt.result = "success" THEN "REPLY" ELSE "ERROR")

\* a cycle that is under way can take its next step, whatever the queue holds
C24_NotBlocked ==
    /\ wPc \in {"loop", "sent"} => ENABLED (process_inbox \/ finish_send \/ run_cycle_return)
    /\ rPc \in {"loop", "replying"} =>
        ENABLED (process_inbox_replies \/ reply_message \/ run_reply_cycle_return)

\* C24: posting an event never blocks the cycle and never raises into it:
\* the queue never holds more than its capacity of 1000; a post to a full
\* queue drops the new event and leaves the queued events as they are; and
\* the posting cycle goes on with the store writes and log rows of the send.
C24_QueueNeverBlocks == [](C24_NotBlocked) /\ [][C24_Step]_vars

\* both cycles have ended with the queue full all along: the send promoted
\* the inbox and was logged, the reply was logged, and the queue is as it was
C24_Witness ==
    /\ wPc = "done"
    /\ rPc = "done"
    /\ uiQueue = Backlog(QUEUE_MAXSIZE)
    /\ Len(wSends) = 1
    /\ wSends[1].result = "success"
    /\ IsStored(inboxRows, "a1")
    /\ StoredRow(inboxRows, "a1").stage = 2
    /\ StoredRow(inboxRows, "a1").daily_sent = 5
    /\ \E i, j \in DOMAIN logRows :
        logRows[i].event_type = "SEND" /\ logRows[j].event_type = "REPLY"

\* no two rows of inboxes.csv have the same email
C25_Unique ==
    \A i, j \in DOMAIN inboxRows : inboxRows[i].email = inboxRows[j].email => i = j

\* add with an email that is there, and update with one that is not, raise
\* and leave the file as it was; otherwise they do not raise, add appends a
\* row for the email and update leaves the number of rows
C25_Step ==
    /\ lastOp'.op = "add" /\ nOps' # nOps =>
        IF IsStored(inboxRows, lastOp'.email)
        THEN lastOp'.raised /\ inboxRows' = inboxRows
        ELSE /\ ~lastOp'.raised
             /\ Len(inboxRows') = Len(inboxRows) + 1
             /\ SubSeq(inboxRows', 1, Len(inboxRows)) = inboxRows
             /\ inboxRows'[Len(inboxRows')].email = lastOp'.email
    /\ lastOp'.op = "update" /\ nOps' # nOps =>
        IF IsStored(inboxRows, lastOp'.email)
        THEN ~lastOp'.raised /\ Len(inboxRows') = Len(inboxRows)
        ELSE lastOp'.raised /\ inboxRows' = inboxRows

\* C25: add with an email already present fails and update with an email
\* absent fails, each leaving the store unchanged; so emails are unique in
\* the store after any sequence of add, update, delete, pause, resume,
\* mark_error, update_stage and reset_daily_counts.
C25_StoreIntegrity == [](C25_Unique) /\ [][C25_Step]_vars

\* after an add that went through, an update of a deleted inbox and an add
\* of an inbox that is there both raised
C25_Witness ==
    /\ nOps = MaxOps
    /\ lastOp.op = "add"
    /\ lastOp.raised
    /\ Len(inboxRows) = 2
    /\ C25_Unique

\* now lies in [from, to), a window with from > to running past midnight;
\* all three in seconds since midnight
C26_InWindow(from, to, t) ==
    IF from > to THEN t >= from \/ t < to ELSE from <= t /\ t < to

\* C26: within_working_hours(start, end) at time now is true exactly when
\* now lies in the half-open interval [start, end), a window with start > end
\* wrapping past midnight; it is true at now = start and false at now = end.
C26_HalfOpenWindow ==
    Returned("within_working_hours") =>
        call.out = C26_InWindow(parse(call.args[1]) * 60, parse(call.args[2]) * 60,
                                call.args[3])

\* the result of check_bounce_threshold on the counts, at the threshold in
\* hundredths: is the call in the state, and what it returned
C27_Returned(sent, bounced, threshold, out) ==
    (Returned("check_bounce_threshold") /\ call.args = <<sent, bounced, threshold>>)
    => call.out = out

\* C27: check_bounce_threshold is false whenever sent = 0, and otherwise true
\* exactly when bounced/sent is strictly greater than the threshold: 5 of 100
\* at 0.05 does not exceed it, 2 of 20 at 0.05 does.
C27_StrictlyAbove ==
    /\ Returned("check_bounce_threshold") =>
        /\ call.args[1] = 0 => ~call.out
        /\ call.args[1] > 0 =>
            (call.out <=> call.args[2] * 100 > call.args[3] * call.args[1])
    /\ C27_Returned(100, 5, 5, FALSE)
    /\ C27_Returned(20, 2, 5, TRUE)
    /\ C27_Returned(20, 1, 5, FALSE)

\* the call with 5 bounces for 100 sends at 0.05 has returned False
C27_Witness ==
    /\ Returned("check_bounce_threshold")
    /\ call.args = <<100, 5, 5>>
    /\ call.out = FALSE

\* the limits of the four stages; any other stage has the limit of stage 1
C28_Limit(stage) ==
    CASE stage = 1 -> 5
      [] stage = 2 -> 15
      [] stage = 3 -> 25
      [] stage = 4 -> 40
      [] OTHER -> 5

\* C28: the daily limit of a stage is 5, 15, 25, 40 for stages 1, 2, 3, 4 and
\* 5 for every other stage value, where the cycle computes it
\* (get_daily_limit) and where reset_daily_counts and update_stage write it.
C28_DailyLimit ==
    (Returned("get_daily_limit") \/ Returned("reset_daily_counts") \/ Returned("update_stage"))
    => call.out = C28_Limit(call.args[1])

\* update_stage to stage 6, out of range, has written the limit 5
C28_Witness ==
    /\ Returned("update_stage")
    /\ call.args = <<6>>
    /\ call.out = 5

\* every stored inbox is at one of the four stages
C29_InRange == \A i \in DOMAIN inboxRows : inboxRows[i].stage \in 1..MAX_STAGE

\* the handler of a successful send from an inbox at stage 4 leaves it at
\* stage 4 and logs no promotion
C29_Step ==
    (HandlerStep("success") /\ Inbox.stage = MAX_STAGE) =>
        /\ IsStored(inboxRows', Inbox.email) =>
            StoredRow(inboxRows', Inbox.email).stage = MAX_STAGE
        /\ ~C24_Logged(Inbox.email, "STAGE")

\* C29: next_stage(s) is s + 1 for s < 4 and next_stage(4) is 4, so promotion
\* never moves an inbox above stage 4: an inbox that starts at a stage in
\* 1..4 is at a stage in 1..4 in every reachable state, and an inbox at
\* stage 4 is never promoted.
C29_StageCapped ==
    /\ [](/\ \A s \in 1..3 : next_stage(s) = s + 1
          /\ next_stage(4) = 4
          /\ C29_InRange)
    /\ [][C29_Step]_vars

\* an inbox at stage 4 has sent the last mail of its quota of 40 and is still
\* at stage 4
C29_Witness ==
    /\ wPc = "done"
    /\ Len(wSends) = 1
    /\ wSends[1].result = "success"
    /\ StoredRow(wStore0, wSends[1].from).stage = 4
    /\ StoredRow(wStore0, wSends[1].from).daily_sent = 39
    /\ IsStored(inboxRows, wSends[1].from)
    /\ StoredRow(inboxRows, wSends[1].from).stage = 4
    /\ StoredRow(inboxRows, wSends[1].from).daily_sent = 40

\* half of the lower bound of the stage's send interval
C30_HalfLow(stage) == STAGE_SEND_INTERVALS[stage][1] \div 2

\* the time of the last SEND row of the inbox in logs.csv, Never without one
C30_LastSend(email) ==
    LET times == {logRows[k].timestamp : k \in {j \in DOMAIN logRows :
                     /\ logRows[j].inbox_email = email
                     /\ logRows[j].event_type = "SEND"}}
    IN  IF times = {} THEN Never
        ELSE CHOOSE t \in times : \A u \in times : u <= t

\* _process_inbox went through the gates and returned without sending
C30_Skipped ==
    /\ wPc = "loop"
    /\ wPc' = "loop"
    /\ wProcessed' # wProcessed
    /\ wRaised' = wRaised

C30_Step ==
    /\ SendStep =>
          \/ Inbox.last_sent_at = Never
          \/ now - Inbox.last_sent_at >= C30_HalfLow(Inbox.stage)
    /\ (C30_Skipped /\ Inbox.last_sent_at = Never) =>
          \/ ~within_working_hours(Inbox.working_hours_start,
                                   Inbox.working_hours_end, now)
          \/ ~should_send(Inbox)
          \/ ~has_least_used(recipientRows, Inbox.email)
    /\ (HandlerStep("success") /\ C24_Logged(Inbox.email, "SEND")
            /\ C30_LastSend(Inbox.email) # Never) =>
          now - C30_LastSend(Inbox.email) >= C30_HalfLow(Inbox.stage)

\* C30: an inbox without a prior send is due (the time gate never keeps it
\* from sending), an inbox whose last send is less than half of the lower
\* interval bound of its stage ago is not due, every drawn delay being at
\* least that half; so a successful send is logged at least half of the
\* lower interval bound of the sending inbox's stage after the inbox's
\* previous SEND row.
C30_SendSpacing ==
    /\ [](\A s \in 1..MAX_STAGE : \A d \in get_send_delay_seconds(s) :
            /\ d >= C30_HalfLow(s)
            /\ \A t \in {0, 1, StartTime} : is_time_to_send(Never, d, t))
    /\ [][C30_Step]_vars

\* an inbox at stage 3 whose last send was 400 seconds before the cycle has
\* sent again, less than the lower interval bound of 600 seconds after it
C30_Witness ==
    /\ wPc = "done"
    /\ Len(wSends) = 1
    /\ wSends[1].result = "success"
    /\ StoredRow(wStore0, wSends[1].from).last_sent_at = StartTime - 400
    /\ StoredRow(wStore0, wSends[1].from).stage = 3
    /\ now - (StartTime - 400) < STAGE_SEND_INTERVALS[3][1]
    /\ Len(logRows) = 2
    /\ logRows[2].event_type = "SEND"

\* an inbox whose last send was 200 seconds before the cycle was gone
\* through and has not sent
C30_WitnessNotDue ==
    /\ wPc = "done"
    /\ wSends = <<>>
    /\ wProcessed # <<>>
    /\ wRaised = {}
    /\ now - (StartTime - 200) < C30_HalfLow(3)
    /\ StoredRow(wStore0, wProcessed[1]).last_sent_at = StartTime - 200

\* the inbox the cycle is at fails the working-hours gate, the quota gate, or
\* the interval gate whatever delay is drawn
C31_GateFails ==
    \/ ~within_working_hours(Inbox.working_hours_start, Inbox.working_hours_end, now)
    \/ ~should_send(Inbox)
    \/ \A delay \in get_send_delay_seconds(Inbox.stage) :
          ~is_time_to_send(Inbox.last_sent_at, delay, now)

\* _process_inbox is called for the inbox the cycle is at
C31_ProcessStep == wPc = "loop" /\ wIdx <= Len(wActive) /\ wProcessed' # wProcessed

C31_Quiet ==
    /\ logRows' = logRows
    /\ uiQueue' = uiQueue
    /\ inboxRows' = inboxRows
    /\ recipientRows' = recipientRows
    /\ wSends' = wSends
    /\ wRaised' = wRaised
    /\ wPc' = "loop"

C31_Step ==
    /\ (C31_ProcessStep /\ C31_GateFails) => C31_Quiet
    /\ (C31_ProcessStep /\ ~C31_Quiet) =>
          \E delay \in get_send_delay_seconds(Inbox.stage) : gates_pass(Inbox, delay, now)

\* C31: an inbox that fails the working-hours, quota or interval gate is
\* skipped silently: its _process_inbox call appends no log row, puts no
\* event, writes neither store and does not call the transport; a call that
\* does any of these was for an inbox that passed the three gates.
C31_SilentSkip == [][C31_Step]_vars

\* a cycle has gone through one inbox that was outside its working hours,
\* and files and queue are as they were when the cycle began
C31_Witness ==
    /\ wPc = "done"
    /\ Len(wProcessed) = 1
    /\ IsStored(wStore0, wProcessed[1])
    /\ LET inbox == StoredRow(wStore0, wProcessed[1])
       IN  /\ ~within_working_hours(inbox.working_hours_start,
                                    inbox.working_hours_end, now)
           /\ should_send(inbox)
           /\ inbox.last_sent_at = Never
    /\ wSends = <<>>
    /\ wRaised = {}
    /\ inboxRows = wStore0
    /\ recipientRows = wRcpt0
    /\ Len(logRows) = wLog0
    /\ Len(uiQueue) = wQ0

\* the send that returns in this step failed on a soft bounce or on an SMTP
\* error that is no bounce and no authentication failure
C32_Transient == HandlerStep("soft") \/ HandlerStep("other")

C32_Step ==
    C32_Transient =>
        /\ inboxRows' = inboxRows
        /\ IsStored(recipientRows', wRecipient)
        /\ StoredRow(recipientRows', wRecipient).active
        /\ logRows' = Append(logRows, LogRecord(now, Inbox.email, "ERROR", ""))
        /\ uiQueue' = Append(uiQueue, [type |-> "error", inbox |-> Inbox.email])
        /\ wIdx' = wIdx + 1
        /\ wSends' = wSends

\* a cycle sends at most once from an inbox
C32_NoRetry ==
    \A k, m \in DOMAIN wSends : wSends[k].from = wSends[m].from => k = m

C33_Log1 == Append(logRows, LogRecord(now, Inbox.email, "BOUNCE", wRecipient))

\* with the BOUNCE row written, the bounce rate of the inbox is above the
\* threshold, wherever the cutoff falls within its second
C33_WouldPause ==
    \A exact \in BOOLEAN :
        check_bounce_threshold(count_sends_last_hours(C33_Log1, Inbox.email, now, exact),
                               count_bounces_last_hours(C33_Log1, Inbox.email, now, exact))

C33_WouldNotPause ==
    \A exact \in BOOLEAN :
        ~check_bounce_threshold(count_sends_last_hours(C33_Log1, Inbox.email, now, exact),
                                count_bounces_last_hours(C33_Log1, Inbox.email, now, exact))

\* the event this step put, when it put one
C33_Event == uiQueue'[Len(uiQueue')].type

C33_Step ==
    (wPc = "sent" /\ wPc' = "loop" /\ logDown) =>
        /\ wIdx' = wIdx + 1
        /\ Len(uiQueue') > Len(uiQueue)
        /\ (wResult = "success" /\ IsStored(inboxRows, Inbox.email)) =>
              /\ inboxRows' = update(inboxRows, updated_record(Inbox, now))
              /\ C33_Event = "send"
        /\ (wResult = "auth" /\ IsStored(inboxRows, Inbox.email)) =>
              /\ StoredRow(inboxRows', Inbox.email).status = "error"
              /\ C33_Event = "error"
        /\ wResult \in {"soft", "other"} =>
              /\ inboxRows' = inboxRows
              /\ C33_Event = "error"
        /\ (wResult = "hard" /\ IsStored(inboxRows, Inbox.email)) =>
              /\ ~StoredRow(recipientRows', wRecipient).active
              /\ C33_WouldPause =>
                    /\ StoredRow(inboxRows', Inbox.email).status = "paused"
                    /\ C33_Event = "pause"
              /\ C33_WouldNotPause =>
                    /\ inboxRows' = inboxRows
                    /\ C33_Event = "bounce"

\* C33: a failing append to logs.csv does not reach the cycle: the handler
\* of a send whose log rows are lost writes to inboxes.csv and
\* recipients.csv and puts the events as it would with the rows written
\* (the auto-pause of a hard bounce above the threshold included), and the
\* cycle goes on to the next inbox.
C33_LogFailureSwallowed == [][C33_Step]_vars

\* C34: in every reachable state the daily_limit of each row of inboxes.csv
\* is get_daily_limit of the row's stage, whatever the order of the cycle's
\* writes, the daily reset and the stage edits of the dashboard.
C34_LimitMatchesStage ==
    \A i \in DOMAIN inboxRows :
        inboxRows[i].daily_limit = get_daily_limit(inboxRows[i].stage)

\* the dashboard wrote to inboxes.csv while the cycle was under way, and the
\* cycle then promoted an inbox from stage 1 to stage 2 with the limit 15
C34_Witness ==
    /\ wPc = "done"
    /\ wForeign
    /\ \E k \in DOMAIN wSends :
        /\ wSends[k].result = "success"
        /\ IsStored(inboxRows, wSends[k].from)
        /\ StoredRow(wStore0, wSends[k].from).stage = 1
        /\ StoredRow(inboxRows, wSends[k].from).stage = 2
        /\ StoredRow(inboxRows, wSends[k].from).daily_limit = 15

\* daily_sent of every row of inboxes.csv is at most the row's daily_limit
C35_WithinLimit ==
    \A i \in DOMAIN inboxRows : inboxRows[i].daily_sent <= inboxRows[i].daily_limit

\* the step is a stage edit of the dashboard
C35_EditStep == \E e \in InboxEmails, s \in EditStages : edit_stage_save(e, s)

\* C35: without a manual stage edit, daily_sent of every stored inbox stays
\* at most its daily_limit, however the WarmupCycle, the ReplyCycle and the
\* daily reset interleave: it holds at the start, and every step that is
\* not a stage edit keeps it.
C35_QuotaNeverExceeded ==
    /\ C35_WithinLimit
    /\ [][(C35_WithinLimit /\ ~C35_EditStep) => C35_WithinLimit']_vars

\* the inbox was at stage 4 with 39 of 40 sent; the daily reset ran while its
\* send was in flight, the ReplyCycle ran too, and the inbox is at 40 of 40
C35_Witness ==
    /\ wPc = "done"
    /\ rPc = "done"
    /\ wForeign
    /\ Len(wSends) = 1
    /\ wSends[1].result = "success"
    /\ StoredRow(wStore0, "a1").daily_sent = 39
    /\ StoredRow(inboxRows, "a1").daily_sent = 40
    /\ StoredRow(inboxRows, "a1").daily_limit = 40
    /\ StoredRow(inboxRows, "a1").stage = 4

\* the STAGE rows of the inbox in logs.csv
C36_StageRows(email) ==
    {k \in DOMAIN logRows :
        logRows[k].inbox_email = email /\ logRows[k].event_type = "STAGE"}

\* C36: between two daily resets an inbox is promoted at most once: as long
\* as the daily reset has not run again (the log is empty at 06:00 of the
\* day), logs.csv holds at most one STAGE row of the inbox.
C36_OnePromotionPerDay ==
    nEnv = 0 => \A e \in InboxEmails : Cardinality(C36_StageRows(e)) <= 1

\* every recipient of the pool has been deactivated, and the inbox is active
C37_PoolBurnt ==
    /\ \A i \in DOMAIN recipientRows : ~recipientRows[i].active
    /\ \A i \in DOMAIN inboxRows : inboxRows[i].status = "active"

\* C37: with every send ending in a hard bounce, the inbox is eventually
\* auto-paused.
C37_EventuallyPaused ==
    <>(\A i \in DOMAIN inboxRows : inboxRows[i].status = "paused")

\* the fields of a row of inboxes.csv other than stage, daily_sent,
\* daily_limit, last_sent_at and paused_reason (conn stands for the hosts,
\* the ports and the password)
C38_OtherFields(r) ==
    <<r.email, r.conn, r.status, r.working_hours_start, r.working_hours_end,
      r.display_name>>

C39_Balanced(rows, d) ==
    \A i, j \in DOMAIN rows :
        (rows[i].active /\ rows[j].active) =>
            rows[i].count_used - rows[j].count_used <= d

\* no active recipient has the address of an inbox
C39_NoSender(rows) ==
    \A i \in DOMAIN rows : rows[i].active => rows[i].email \notin InboxEmails

\* C39: rotation stays balanced: when no active recipient has the address
\* of a sending inbox and the usage counts of the active recipients are the
\* same when a cycle loads the stores, or differ by at most one, they differ
\* by at most one after every step of the cycle, whatever the results of
\* its sends, so they do after any sequence of cycles.
C39_RotationBalanced ==
    /\ []((wPc \in {"loop", "sent", "done"} /\ C39_Balanced(wRcpt0, 0)
                /\ C39_NoSender(wRcpt0)) => C39_Balanced(recipientRows, 1))
    /\ [][(C39_Balanced(recipientRows, 1) /\ C39_NoSender(recipientRows))
              => C39_Balanced(recipientRows', 1)]_vars

\* two active recipients had the same usage count; a cycle sent to both, one
\* of the sends ended in a hard bounce and the other did not
C39_Witness ==
    /\ wPc = "done"
    /\ Len(wRcpt0) = 2
    /\ wRcpt0[1].active /\ wRcpt0[2].active
    /\ C39_Balanced(wRcpt0, 0)
    /\ C39_NoSender(wRcpt0)
    /\ Len(wSends) = 2
    /\ wSends[1].to # wSends[2].to
    /\ wSends[1].result = "hard"
    /\ wSends[2].result # "hard"
    /\ \A i \in DOMAIN recipientRows :
        recipientRows[i].count_used = wRcpt0[i].count_used + 1


\* every account that is active is at the last stage
C40_AtStageFour ==
    \A i \in DOMAIN inboxRows :
        inboxRows[i].status = "active" => inboxRows[i].stage = 4

\* C40 as stated: with the warm-up job and the daily reset firing fairly,
\* every send succeeding, an active recipient at hand and the clock inside
\* the working hours again and again, every account that stays active
\* reaches stage 4 in the end and stays there
C40_ReachesStageFour == <>[]C40_AtStageFour

\* the working hours are the whole day and the interval gate draws its
\* shortest delay every time: the sends of a day's quota fit between two
\* resets
C40_RoomForQuota ==
    /\ rng = "short"
    /\ \A i \in DOMAIN inboxRows :
        /\ inboxRows[i].working_hours_start = AllDay[1]
        /\ inboxRows[i].working_hours_end = AllDay[2]

\* C40, with the condition it leaves out: when in addition the working
\* hours and the delays drawn leave room for a day's quota of sends between
\* two resets, every account that stays active reaches stage 4 in the end
\* and stays there
C40_ReachesStageFourWithRoom == C40_RoomForQuota => <>[]C40_AtStageFour

\* a1 began at stage 1 and has climbed to stage 4
C40_Witness ==
    /\ C40_RoomForQuota
    /\ find(inboxRows, "a1").stage = 4
    /\ find(inboxRows, "a1").status = "active"
    /\ Cardinality({k \in DOMAIN logRows : logRows[k].event_type = "STAGE"}) = 3

\* three resets on, a1 is still at stage 3: its working hours of one hour
\* have no room for 25 sends
C40_StuckInNarrowHours ==
    /\ rng = "short"
    /\ nEnv = 3
    /\ find(inboxRows, "a1").stage = 3
    /\ find(inboxRows, "a1").working_hours_end = <<10, 0>>
    /\ Cardinality({k \in DOMAIN logRows : logRows[k].event_type = "SEND"}) > 0

\* three resets on, a1 is still at stage 3: with the longest delay every
\* time it sends once an hour, 24 times between two resets
C40_StuckWithLongDelays ==
    /\ rng = "long"
    /\ nEnv = 3
    /\ find(inboxRows, "a1").stage = 3
    /\ find(inboxRows, "a1").working_hours_end = AllDay[2]
    /\ Cardinality({k \in DOMAIN logRows : logRows[k].event_type = "SEND"}) > 48

====
